---------------------------- MODULE Spec2Model ----------------------------
(***************************************************************************)
(* A model of makecode-chess (src/main.ts, the variant of lines 2151-3815, *)
(* whose rule engine is the same as src/unnamed/part_000): the board, the  *)
(* move legality engine, movePiece / undoLastMove, updateGameStatus and    *)
(* the button handlers that drive them.                                    *)
(*                                                                         *)
(* Rows 0..7 run from Black's back rank (row 0) to White's (row 7);        *)
(* columns 0..7 are the files a..h.                                        *)
(***************************************************************************)
EXTENDS Integers, Sequences, FiniteSets, TLC

BOARD_SIZE == 8

Rows == 0..(BOARD_SIZE - 1)
Cols == 0..(BOARD_SIZE - 1)

White == "White"
Black == "Black"

\* class Piece: type, color, hasMoved (the sprite is rendering only).
\* NoPiece stands for null in a board cell.
NoPiece == [type |-> "None", color |-> "None", hasMoved |-> FALSE]

Piece(t, c) == [type |-> t, color |-> c, hasMoved |-> FALSE]

\* null for enPassantTarget and selectedPiece
NoSquare == [row |-> -1, col |-> -1]

Square(r, c) == [row |-> r, col |-> c]

Abs(x) == IF x < 0 THEN -x ELSE x

OtherColor(c) == IF c = White THEN Black ELSE White

\* direction = piece.color == PieceColor.White ? -1 : 1
Direction(color) == IF color = White THEN -1 ELSE 1

pieceValue(piece) ==
    CASE piece.type = "Pawn"   -> 1
      [] piece.type = "Knight" -> 3
      [] piece.type = "Bishop" -> 3
      [] piece.type = "Rook"   -> 5
      [] piece.type = "Queen"  -> 9
      [] piece.type = "King"   -> 20
      [] OTHER                 -> 0

BackRank(c) ==
    CASE c = 0 -> "Rook"   [] c = 1 -> "Knight" [] c = 2 -> "Bishop"
      [] c = 3 -> "Queen"  [] c = 4 -> "King"   [] c = 5 -> "Bishop"
      [] c = 6 -> "Knight" [] c = 7 -> "Rook"

\* The board initBoard builds.
InitialBoard ==
    [r \in Rows |-> [c \in Cols |->
        CASE r = 0 -> Piece(BackRank(c), Black)
          [] r = 1 -> Piece("Pawn", Black)
          [] r = 6 -> Piece("Pawn", White)
          [] r = 7 -> Piece(BackRank(c), White)
          [] OTHER -> NoPiece]]

\* let board = [] before the first initBoard: no cell holds a piece.
EmptyBoard == [r \in Rows |-> [c \in Cols |-> NoPiece]]

-----------------------------------------------------------------------------
(* Movement logic.  The source reads the global board; here the board (and  *)
(* the en-passant target) a call reads is its first argument.               *)

\* the values strictly between a and b
Between(a, b) == {x \in Rows : (a < x /\ x < b) \/ (b < x /\ x < a)}

isLegalPawnMove(b, fromRow, fromCol, toRow, toCol, piece) ==
    LET direction == Direction(piece.color) IN
    \/ toCol = fromCol /\ toRow = fromRow + direction /\ b[toRow][toCol] = NoPiece
    \/ /\ toCol = fromCol
       /\ ~piece.hasMoved
       /\ toRow = fromRow + 2 * direction
       /\ b[fromRow + direction][fromCol] = NoPiece
       /\ b[toRow][toCol] = NoPiece
    \/ /\ Abs(toCol - fromCol) = 1
       /\ toRow = fromRow + direction
       /\ b[toRow][toCol] # NoPiece
       /\ b[toRow][toCol].color # piece.color

\* The loops walk the squares strictly between from and to.  (With from = to
\* the source's row loop never meets toCol; no caller passes from = to for a
\* rook or queen: isLegalMove rejects it as a self-capture and an attacker
\* never stands on the square it is asked about.)
isLegalRookMove(b, fromRow, fromCol, toRow, toCol) ==
    IF fromRow # toRow /\ fromCol # toCol THEN FALSE
    ELSE IF fromRow = toRow
         THEN \A c \in Between(fromCol, toCol) : b[fromRow][c] = NoPiece
         ELSE \A r \in Between(fromRow, toRow) : b[r][fromCol] = NoPiece

isLegalKnightMove(fromRow, fromCol, toRow, toCol) ==
    LET dr == Abs(toRow - fromRow)
        dc == Abs(toCol - fromCol)
    IN (dr = 2 /\ dc = 1) \/ (dr = 1 /\ dc = 2)

\* With from = to the source's loop runs off the board and returns false.
isLegalBishopMove(b, fromRow, fromCol, toRow, toCol) ==
    IF Abs(toRow - fromRow) # Abs(toCol - fromCol) THEN FALSE
    ELSE IF toRow = fromRow THEN FALSE
    ELSE LET stepRow == IF toRow > fromRow THEN 1 ELSE -1
             stepCol == IF toCol > fromCol THEN 1 ELSE -1
         IN \A k \in 1..(Abs(toRow - fromRow) - 1) :
                b[fromRow + k * stepRow][fromCol + k * stepCol] = NoPiece

isLegalQueenMove(b, fromRow, fromCol, toRow, toCol) ==
    \/ isLegalRookMove(b, fromRow, fromCol, toRow, toCol)
    \/ isLegalBishopMove(b, fromRow, fromCol, toRow, toCol)

isLegalKingMove(fromRow, fromCol, toRow, toCol) ==
    LET dr == Abs(toRow - fromRow)
        dc == Abs(toCol - fromCol)
    IN dr <= 1 /\ dc <= 1

-----------------------------------------------------------------------------
(* Rule enforcement *)

\* cloneBoard copies type, color and hasMoved of every piece: on values the
\* copy is the board itself.
cloneBoard(b) == [r \in Rows |-> [c \in Cols |-> b[r][c]]]

canPieceAttack(fromRow, fromCol, toRow, toCol, piece, b) ==
    CASE piece.type = "Pawn" ->
            Abs(toCol - fromCol) = 1 /\ toRow = fromRow + Direction(piece.color)
      [] piece.type = "Rook"   -> isLegalRookMove(b, fromRow, fromCol, toRow, toCol)
      [] piece.type = "Knight" -> isLegalKnightMove(fromRow, fromCol, toRow, toCol)
      [] piece.type = "Bishop" -> isLegalBishopMove(b, fromRow, fromCol, toRow, toCol)
      [] piece.type = "Queen"  -> isLegalQueenMove(b, fromRow, fromCol, toRow, toCol)
      [] piece.type = "King"   ->
            Abs(toRow - fromRow) <= 1 /\ Abs(toCol - fromCol) <= 1
      [] OTHER -> FALSE

\* An attack test in which a pawn attacks the squares it can move to: the
\* square straight ahead as well as the two diagonal ones.
isSquareAttackedAhead(row, col, byColor, b) ==
    \E r \in Rows, c \in Cols :
        LET p == b[r][c] IN
        /\ p # NoPiece
        /\ p.color = byColor
        /\ IF p.type = "Pawn"
           THEN row = r + Direction(p.color) /\ Abs(col - c) <= 1
           ELSE canPieceAttack(r, c, row, col, p, b)

isSquareAttacked(row, col, byColor, b) ==
    \E r \in Rows, c \in Cols :
        LET p == b[r][c] IN
        /\ p # NoPiece
        /\ p.color = byColor
        /\ IF p.type = "Pawn"
           THEN row = r + Direction(p.color) /\ (col = c - 1 \/ col = c + 1)
           ELSE canPieceAttack(r, c, row, col, p, b)

\* the squares holding a king of the color (the source returns the first in
\* row-major order, or null)
KingSquares(color, b) ==
    {sq \in Rows \X Cols :
        b[sq[1]][sq[2]].color = color /\ b[sq[1]][sq[2]].type = "King"}

findKing(color, b) ==
    LET ks == KingSquares(color, b) IN
    IF ks = {} THEN NoSquare
    ELSE LET first == CHOOSE sq \in ks :
                 \A o \in ks : sq[1] < o[1] \/ (sq[1] = o[1] /\ sq[2] <= o[2])
         IN Square(first[1], first[2])

\* A test for check that takes a missing king as not in check.
isKingInCheckIfFound(color, b) ==
    LET kingPos == findKing(color, b) IN
    IF kingPos = NoSquare THEN FALSE
    ELSE isSquareAttacked(kingPos.row, kingPos.col, OtherColor(color), b)

isKingInCheck(color, b) ==
    LET kingPos == findKing(color, b) IN
    IF kingPos = NoSquare THEN TRUE
    ELSE isSquareAttacked(kingPos.row, kingPos.col, OtherColor(color), b)

\* A castling test that also asks that the king has never moved.
CastlingLegalUnmoved(b, fromRow, fromCol, toRow, toCol, piece) ==
    LET enemyColor == OtherColor(piece.color)
        step == IF toCol > fromCol THEN 1 ELSE -1
        rook == b[fromRow][IF toCol > fromCol THEN BOARD_SIZE - 1 ELSE 0]
    IN
    /\ ~piece.hasMoved
    /\ ~isKingInCheck(piece.color, b)
    /\ ~isSquareAttacked(fromRow, fromCol + step, enemyColor, b)
    /\ ~isSquareAttacked(toRow, toCol, enemyColor, b)
    /\ \A c \in Between(fromCol, IF toCol > fromCol THEN toCol + 1 ELSE toCol - 1) :
           b[fromRow][c] = NoPiece
    /\ rook # NoPiece /\ ~rook.hasMoved

\* The castling branch of isLegalMoveBasic: a king's two-column move along
\* its row.
CastlingLegal(b, fromRow, fromCol, toRow, toCol, piece) ==
    LET enemyColor == OtherColor(piece.color)
        step == IF toCol > fromCol THEN 1 ELSE -1
    IN
    /\ ~isKingInCheck(piece.color, b)
    /\ ~isSquareAttacked(fromRow, fromCol + step, enemyColor, b)
    /\ ~isSquareAttacked(toRow, toCol, enemyColor, b)
    /\ IF toCol > fromCol
       THEN /\ \A c \in (fromCol + 1)..toCol : b[fromRow][c] = NoPiece
            /\ LET rook == b[fromRow][BOARD_SIZE - 1] IN
               rook # NoPiece /\ ~rook.hasMoved
       ELSE /\ \A c \in toCol..(fromCol - 1) : b[fromRow][c] = NoPiece
            /\ LET rook == b[fromRow][0] IN
               rook # NoPiece /\ ~rook.hasMoved

isLegalMoveBasic(b, ep, fromRow, fromCol, toRow, toCol, piece) ==
    IF /\ piece.type = "Pawn"
       /\ Abs(toCol - fromCol) = 1
       /\ toRow = fromRow + Direction(piece.color)
       /\ b[toRow][toCol] = NoPiece
       /\ ep # NoSquare
       /\ ep.row = toRow
       /\ ep.col = toCol
    THEN TRUE
    ELSE
    CASE piece.type = "Pawn" ->
            isLegalPawnMove(b, fromRow, fromCol, toRow, toCol, piece)
      [] piece.type = "Rook"   -> isLegalRookMove(b, fromRow, fromCol, toRow, toCol)
      [] piece.type = "Knight" -> isLegalKnightMove(fromRow, fromCol, toRow, toCol)
      [] piece.type = "Bishop" -> isLegalBishopMove(b, fromRow, fromCol, toRow, toCol)
      [] piece.type = "Queen"  -> isLegalQueenMove(b, fromRow, fromCol, toRow, toCol)
      [] piece.type = "King"   ->
            IF Abs(toCol - fromCol) = 2 /\ toRow = fromRow
            THEN CastlingLegal(b, fromRow, fromCol, toRow, toCol, piece)
            ELSE isLegalKingMove(fromRow, fromCol, toRow, toCol)
      [] OTHER -> FALSE

\* The board isLegalMoveSimulated tests for check: the clone with the move
\* made on it.
SimulatedBoard(b, fromRow, fromCol, toRow, toCol) ==
    LET simBoard == cloneBoard(b)
        simPiece == simBoard[fromRow][fromCol]
        b1 == IF /\ simPiece.type = "Pawn"
                 /\ Abs(toCol - fromCol) = 1
                 /\ simBoard[toRow][toCol] = NoPiece
              THEN [simBoard EXCEPT ![fromRow][toCol] = NoPiece]
              ELSE [simBoard EXCEPT ![toRow][toCol] = NoPiece]
        b2 == [b1 EXCEPT ![toRow][toCol] = simPiece]
        b3 == [b2 EXCEPT ![fromRow][fromCol] = NoPiece]
    IN
    IF simPiece.type = "King" /\ Abs(toCol - fromCol) = 2
    THEN IF toCol > fromCol
         THEN LET rook == b3[fromRow][BOARD_SIZE - 1] IN
              [[b3 EXCEPT ![fromRow][fromCol + 1] = rook]
                   EXCEPT ![fromRow][BOARD_SIZE - 1] = NoPiece]
         ELSE LET rook == b3[fromRow][0] IN
              [[b3 EXCEPT ![fromRow][fromCol - 1] = rook]
                   EXCEPT ![fromRow][0] = NoPiece]
    ELSE b3

\* A legality test that stops after isLegalMoveBasic and never looks at the
\* mover's king (what isLegalMoveSimulated would be without its last line).
isLegalMoveUnchecked(b, ep, fromRow, fromCol, toRow, toCol) ==
    LET piece == b[fromRow][fromCol] IN
    /\ piece # NoPiece
    /\ isLegalMoveBasic(b, ep, fromRow, fromCol, toRow, toCol, piece)

isLegalMoveSimulated(b, ep, fromRow, fromCol, toRow, toCol) ==
    LET piece == b[fromRow][fromCol] IN
    /\ piece # NoPiece
    /\ isLegalMoveBasic(b, ep, fromRow, fromCol, toRow, toCol, piece)
    /\ ~isKingInCheck(piece.color, SimulatedBoard(b, fromRow, fromCol, toRow, toCol))

isLegalMove(b, ep, fromRow, fromCol, toRow, toCol) ==
    LET piece == b[fromRow][fromCol] IN
    /\ piece # NoPiece
    /\ toRow \in Rows /\ toCol \in Cols
    /\ LET dest == b[toRow][toCol] IN
       ~(dest # NoPiece /\ dest.color = piece.color)
    /\ isLegalMoveSimulated(b, ep, fromRow, fromCol, toRow, toCol)

-----------------------------------------------------------------------------
(* Numbers.  The evaluation computes in IEEE 754 doubles.  A number here is *)
(* a sign and a magnitude; the magnitude is an exact multiple of 2^-60      *)
(* written as four limbs <<l1, l2, l3, l4>> of LimbBits bits, l1 the        *)
(* lowest, so that l4 is the integer part; every result is rounded to       *)
(* Mantissa significant bits, ties to even.  The magnitudes of an           *)
(* evaluation are at least 2^-4 where they are rounded and stay below 2^12. *)

LimbBits == 20
Limb == 2^LimbBits
Mantissa == 53

ZeroMag == <<0, 0, 0, 0>>

AddMag(a, b) ==
    LET s1 == a[1] + b[1]
        s2 == a[2] + b[2] + s1 \div Limb
        s3 == a[3] + b[3] + s2 \div Limb
        s4 == a[4] + b[4] + s3 \div Limb
    IN <<s1 % Limb, s2 % Limb, s3 % Limb, s4>>

\* a - b for a >= b
SubMag(a, b) ==
    LET d1 == a[1] - b[1]
        d2 == a[2] - b[2] - (IF d1 < 0 THEN 1 ELSE 0)
        d3 == a[3] - b[3] - (IF d2 < 0 THEN 1 ELSE 0)
        d4 == a[4] - b[4] - (IF d3 < 0 THEN 1 ELSE 0)
    IN <<(d1 + Limb) % Limb, (d2 + Limb) % Limb, (d3 + Limb) % Limb, d4>>

LessMag(a, b) ==
    \E i \in 1..4 : a[i] < b[i] /\ \A j \in (i + 1)..4 : a[j] = b[j]

\* the number of bits of the integer n, 0 <= n < Limb
BitLength(n) == CHOOSE k \in 0..LimbBits : n < 2^k /\ (k > 0 => 2^(k - 1) <= n)

\* the number of bits of a magnitude
MagLength(a) ==
    IF a[4] # 0 THEN 3 * LimbBits + BitLength(a[4])
    ELSE IF a[3] # 0 THEN 2 * LimbBits + BitLength(a[3])
    ELSE IF a[2] # 0 THEN LimbBits + BitLength(a[2])
    ELSE BitLength(a[1])

\* Round to nearest, ties to even, at the bit of weight ulp: a is the
\* magnitude down to its last bit, sticky tells whether the exact value has
\* more below it.  The bits dropped are within the lowest limb.
RoundAt(a, sticky, ulp) ==
    IF \/ 2 * (a[1] % ulp) > ulp
       \/ 2 * (a[1] % ulp) = ulp /\ (sticky \/ (a[1] \div ulp) % 2 = 1)
    THEN AddMag(<<a[1] - (a[1] % ulp), a[2], a[3], a[4]>>, <<ulp, 0, 0, 0>>)
    ELSE <<a[1] - (a[1] % ulp), a[2], a[3], a[4]>>

\* a rounded to Mantissa significant bits
RoundMag(a, sticky) ==
    RoundAt(a, sticky, IF MagLength(a) > Mantissa THEN 2^(MagLength(a) - Mantissa) ELSE 1)

\* -0 and 0 are the same number to === and to <
FloatOf(neg, mag) == [neg |-> neg /\ mag # ZeroMag, mag |-> mag]

\* the integer n as a number
Number(n) == FloatOf(n < 0, <<0, 0, 0, IF n < 0 THEN -n ELSE n>>)

\* x + y
Plus(x, y) ==
    IF x.neg = y.neg \/ ~LessMag(x.mag, y.mag)
    THEN FloatOf(x.neg, RoundMag(IF x.neg = y.neg THEN AddMag(x.mag, y.mag)
                                 ELSE SubMag(x.mag, y.mag),
                                 FALSE))
    ELSE FloatOf(y.neg, RoundMag(SubMag(y.mag, x.mag), FALSE))

\* -x
Negated(x) == FloatOf(~x.neg, x.mag)

\* x - y
Minus(x, y) == Plus(x, Negated(y))

\* n / 10 for an integer n: the quotient by long division, rounded
DividedBy10(n) ==
    LET q4 == (IF n < 0 THEN -n ELSE n) \div 10
        r4 == (IF n < 0 THEN -n ELSE n) % 10
        q3 == (r4 * Limb) \div 10
        r3 == (r4 * Limb) % 10
        q2 == (r3 * Limb) \div 10
        r2 == (r3 * Limb) % 10
        q1 == (r2 * Limb) \div 10
        r1 == (r2 * Limb) % 10
    IN FloatOf(n < 0, RoundMag(<<q1, q2, q3, q4>>, r1 # 0))

\* x < y
Less(x, y) ==
    IF x.neg # y.neg THEN x.neg
    ELSE IF x.neg THEN LessMag(y.mag, x.mag)
    ELSE LessMag(x.mag, y.mag)

\* no number yet
NoNumber == [neg |-> FALSE, mag |-> << >>]

\* 0.5 and 0.75
Half == FloatOf(FALSE, <<0, 0, Limb \div 2, 0>>)
ThreeQuarters == FloatOf(FALSE, <<0, 0, 3 * (Limb \div 4), 0>>)

-----------------------------------------------------------------------------
(* Evaluation *)

pawnTable ==
    <<
       <<  0,   0,   0,   0,   0,   0,   0,   0>>,
       <<  5,   5,   5,   5,   5,   5,   5,   5>>,
       <<  1,   1,   2,   3,   3,   2,   1,   1>>,
       <<  0,   0,   0,  10,  10,   0,   0,   0>>,
       <<  0,   0,   0,  -5,  -5,   0,   0,   0>>,
       <<  1,  -1,  -2,   0,   0,  -2,  -1,   1>>,
       <<  1,   2,   2,  -2,  -2,   2,   2,   1>>,
       <<  0,   0,   0,   0,   0,   0,   0,   0>>
    >>

knightTable ==
    <<
       << -5,  -4,  -3,  -3,  -3,  -3,  -4,  -5>>,
       << -4,  -2,   0,   0,   0,   0,  -2,  -4>>,
       << -3,   0,   1,   1,   1,   1,   0,  -3>>,
       << -3,   0,   1,   2,   2,   1,   0,  -3>>,
       << -3,   0,   1,   2,   2,   1,   0,  -3>>,
       << -3,   0,   1,   1,   1,   1,   0,  -3>>,
       << -4,  -2,   0,   0,   0,   0,  -2,  -4>>,
       << -5,  -4,  -3,  -3,  -3,  -3,  -4,  -5>>
    >>

bishopTable ==
    <<
       << -2,  -1,  -1,  -1,  -1,  -1,  -1,  -2>>,
       << -1,   0,   0,   0,   0,   0,   0,  -1>>,
       << -1,   0,   1,   1,   1,   1,   0,  -1>>,
       << -1,   0,   1,   2,   2,   1,   0,  -1>>,
       << -1,   0,   1,   2,   2,   1,   0,  -1>>,
       << -1,   0,   1,   1,   1,   1,   0,  -1>>,
       << -1,   0,   0,   0,   0,   0,   0,  -1>>,
       << -2,  -1,  -1,  -1,  -1,  -1,  -1,  -2>>
    >>

rookTable ==
    <<
       <<  0,   0,   0,   0,   0,   0,   0,   0>>,
       <<  0,   0,   0,   0,   0,   0,   0,   0>>,
       <<  0,   0,   0,   0,   0,   0,   0,   0>>,
       <<  0,   0,   0,   0,   0,   0,   0,   0>>,
       <<  0,   0,   0,   0,   0,   0,   0,   0>>,
       <<  0,   0,   0,   0,   0,   0,   0,   0>>,
       <<  5,   5,   5,   5,   5,   5,   5,   5>>,
       <<  0,   0,   0,  10,  10,   0,   0,   0>>
    >>

queenTable ==
    <<
       << -2,  -1,  -1,   0,   0,  -1,  -1,  -2>>,
       << -1,   0,   0,   0,   0,   0,   0,  -1>>,
       << -1,   0,   1,   1,   1,   1,   0,  -1>>,
       <<  0,   0,   1,   1,   1,   1,   0,   0>>,
       <<  0,   0,   1,   1,   1,   1,   0,   0>>,
       << -1,   0,   1,   1,   1,   1,   0,  -1>>,
       << -1,   0,   0,   0,   0,   0,   0,  -1>>,
       << -2,  -1,  -1,   0,   0,  -1,  -1,  -2>>
    >>

kingTable ==
    <<
       << -3,  -4,  -4,  -5,  -5,  -4,  -4,  -3>>,
       << -3,  -4,  -4,  -5,  -5,  -4,  -4,  -3>>,
       << -3,  -4,  -4,  -5,  -5,  -4,  -4,  -3>>,
       << -3,  -4,  -4,  -5,  -5,  -4,  -4,  -3>>,
       << -2,  -3,  -3,  -4,  -4,  -3,  -3,  -2>>,
       << -1,  -2,  -2,  -2,  -2,  -2,  -2,  -1>>,
       <<  2,   2,   0,   0,   0,   0,   2,   2>>,
       <<  2,   3,   1,   0,   0,   1,   3,   2>>
    >>

\* A bonus read at (row, col) for both colors.
getPieceSquareBonusUnflipped(piece, row, col) ==
    CASE piece.type = "Pawn" -> pawnTable[row + 1][col + 1]
      [] piece.type = "Knight" -> knightTable[row + 1][col + 1]
      [] piece.type = "Bishop" -> bishopTable[row + 1][col + 1]
      [] piece.type = "Rook" -> rookTable[row + 1][col + 1]
      [] piece.type = "Queen" -> queenTable[row + 1][col + 1]
      [] piece.type = "King" -> kingTable[row + 1][col + 1]
      [] OTHER -> 0

\* For White pieces the table is read from the other end of the board.
getPieceSquareBonus(piece, row, col) ==
    LET tableRow == IF piece.color = Black THEN row ELSE BOARD_SIZE - 1 - row
        tableCol == IF piece.color = Black THEN col ELSE BOARD_SIZE - 1 - col
    IN CASE piece.type = "Pawn" -> pawnTable[tableRow + 1][tableCol + 1]
         [] piece.type = "Knight" -> knightTable[tableRow + 1][tableCol + 1]
         [] piece.type = "Bishop" -> bishopTable[tableRow + 1][tableCol + 1]
         [] piece.type = "Rook" -> rookTable[tableRow + 1][tableCol + 1]
         [] piece.type = "Queen" -> queenTable[tableRow + 1][tableCol + 1]
         [] piece.type = "King" -> kingTable[tableRow + 1][tableCol + 1]
         [] OTHER -> 0

\* the squares in the order of staticEvaluation's two loops (rows, then
\* columns), and those of them that hold a piece
Cells ==
    [k \in 1..(BOARD_SIZE * BOARD_SIZE) |->
        <<(k - 1) \div BOARD_SIZE, (k - 1) % BOARD_SIZE>>]

occupiedCells(b) == SelectSeq(Cells, LAMBDA sq : b[sq[1]][sq[2]] # NoPiece)

\* What a piece adds to the score: base + posBonus for a Black piece, its
\* negation for a White one (score -= x is score += -x).
pieceScore(piece, r, c) ==
    IF piece.color = Black
    THEN Plus(Number(pieceValue(piece)), DividedBy10(getPieceSquareBonus(piece, r, c)))
    ELSE Negated(Plus(Number(pieceValue(piece)),
                      DividedBy10(getPieceSquareBonus(piece, r, c))))

\* The score of staticEvaluation after the first n pieces its loops meet.
RECURSIVE materialScore(_, _, _)
materialScore(b, cells, n) ==
    IF n = 0 THEN Number(0)
    ELSE Plus(materialScore(b, cells, n - 1),
              pieceScore(b[cells[n][1]][cells[n][2]], cells[n][1], cells[n][2]))

\* if (cond) score += bonus
addedIf(cond, score, bonus) == IF cond THEN Plus(score, bonus) ELSE score

staticEvaluation(b) ==
    LET bishops(color) ==
            Cardinality({sq \in Rows \X Cols :
                            /\ b[sq[1]][sq[2]] # NoPiece
                            /\ b[sq[1]][sq[2]].type = "Bishop"
                            /\ b[sq[1]][sq[2]].color = color})
        cells == occupiedCells(b)
    IN addedIf(isKingInCheck(Black, b),
               addedIf(isKingInCheck(White, b),
                       addedIf(bishops(Black) >= 2,
                               addedIf(bishops(White) >= 2,
                                       materialScore(b, cells, Len(cells)),
                                       Negated(Half)),
                               Half),
                       ThreeQuarters),
               Negated(ThreeQuarters))

-----------------------------------------------------------------------------
(* The program state.  A handler is an operator from a state record to the  *)
(* state record it leaves; the actions below apply the handlers to the      *)
(* variables.                                                               *)

VARIABLES
    board,          \* (Piece | null)[][]
    enPassantTarget,
    moveHistory,    \* MoveRecord[]
    currentTurn,
    selectedPiece,
    gameOver,
    gameType,       \* "TwoPlayer" | "AI"
    gameState,      \* "MainMenu" | "Playing" | "GameOver"
    menuSelection,  \* 0: 2-Player, 1: AI Mode
    gameOverMenu,   \* what the last createGameOverMenu shows, "none" before
    whiteScore,
    blackScore,
    aiThinking,
    aiSearchDepth,
    aiPc,           \* the fiber aiMove starts: "idle" | "search" | "searched"
    bestSoFar,      \* its local bestSoFar
    lastAIMove,     \* the move of the AI's last turn, NoMove for null
    evaluation,     \* what the last call of staticEvaluation on the board
                    \* returned, NoNumber before the first
    steps           \* handler runs and fiber steps since Init (bounds the
                    \* exploration)

vars == <<board, enPassantTarget, moveHistory, currentTurn, selectedPiece,
          gameOver, gameType, gameState, menuSelection, gameOverMenu,
          whiteScore, blackScore, aiThinking, aiSearchDepth, aiPc,
          bestSoFar, lastAIMove, evaluation, steps>>

\* the program's globals and the AI fiber's locals, as one record
St ==
    [board |-> board, enPassantTarget |-> enPassantTarget,
     moveHistory |-> moveHistory, currentTurn |-> currentTurn,
     selectedPiece |-> selectedPiece, gameOver |-> gameOver,
     gameType |-> gameType, gameState |-> gameState,
     menuSelection |-> menuSelection, gameOverMenu |-> gameOverMenu,
     whiteScore |-> whiteScore, blackScore |-> blackScore,
     aiThinking |-> aiThinking, aiSearchDepth |-> aiSearchDepth,
     aiPc |-> aiPc, bestSoFar |-> bestSoFar, lastAIMove |-> lastAIMove]

NoMove == [fromRow |-> -1, fromCol |-> -1, toRow |-> -1, toCol |-> -1]

Move(fr, fc, tr, tc) == [fromRow |-> fr, fromCol |-> fc, toRow |-> tr, toCol |-> tc]

\* MoveRecord.captured and MoveRecord.castling when absent
NoCaptured ==
    [present |-> FALSE, type |-> "None", color |-> "None", hasMoved |-> FALSE,
     row |-> -1, col |-> -1]

NoCastling ==
    [present |-> FALSE, rookFrom |-> -1, rookTo |-> -1, rook |-> NoPiece,
     oldHasMoved |-> FALSE]

\* The globals as the program's top level leaves them (main menu shown).
StartState ==
    [board |-> EmptyBoard, enPassantTarget |-> NoSquare,
     moveHistory |-> << >>, currentTurn |-> White,
     selectedPiece |-> NoSquare, gameOver |-> FALSE,
     gameType |-> "TwoPlayer", gameState |-> "MainMenu",
     menuSelection |-> 0, gameOverMenu |-> "none",
     whiteScore |-> 0, blackScore |-> 0,
     aiThinking |-> FALSE, aiSearchDepth |-> 3,
     aiPc |-> "idle", bestSoFar |-> NoMove, lastAIMove |-> NoMove]

-----------------------------------------------------------------------------
(* Game status *)

hasAnyLegalMove(b, ep, color) ==
    \E row \in Rows, col \in Cols :
        /\ b[row][col] # NoPiece
        /\ b[row][col].color = color
        /\ \E r2 \in Rows, c2 \in Cols : isLegalMove(b, ep, row, col, r2, c2)

\* createGameOverMenu(result) sets gameState and shows the result.
createGameOverMenu(st, result) ==
    [st EXCEPT !.gameState = "GameOver", !.gameOverMenu = result]

\* A status update that ends the game when the side to move has no legal
\* move but calls every such end a tie.
updateGameStatusTie(st) ==
    IF st.gameOver THEN st
    ELSE IF ~hasAnyLegalMove(st.board, st.enPassantTarget, st.currentTurn)
         THEN [createGameOverMenu(st, "tie")
                   EXCEPT !.gameOver = TRUE, !.gameState = "GameOver"]
         ELSE st

updateGameStatus(st) ==
    IF st.gameOver THEN st
    ELSE LET inCheck == isKingInCheck(st.currentTurn, st.board) IN
         IF ~hasAnyLegalMove(st.board, st.enPassantTarget, st.currentTurn)
         THEN LET shown == IF inCheck
                           THEN createGameOverMenu(st,
                                    IF st.currentTurn = White THEN "lose" ELSE "win")
                           ELSE createGameOverMenu(st, "tie")
              IN [shown EXCEPT !.gameOver = TRUE, !.gameState = "GameOver"]
         ELSE st

-----------------------------------------------------------------------------
(* Move executor and history *)

\* A move executor's promotion step that leaves the pawn a pawn.
unpromoted(piece, toRow) == piece

\* Pawn promotion in movePiece
promoted(piece, toRow) ==
    IF /\ piece.type = "Pawn"
       /\ \/ piece.color = White /\ toRow = 0
          \/ piece.color = Black /\ toRow = BOARD_SIZE - 1
    THEN [piece EXCEPT !.type = "Queen"]
    ELSE piece

\* An en-passant update that looks at the distance only, not at the piece.
enPassantTargetOfAny(piece, fromRow, fromCol, toRow) ==
    IF Abs(toRow - fromRow) = 2
    THEN Square(fromRow + (toRow - fromRow) \div 2, fromCol)
    ELSE NoSquare

\* "Update en passant target" in movePiece
enPassantTargetAfter(piece, fromRow, fromCol, toRow) ==
    IF piece.type = "Pawn" /\ Abs(toRow - fromRow) = 2
    THEN Square(fromRow + (toRow - fromRow) \div 2, fromCol)
    ELSE NoSquare

\* movePiece up to and including the en-passant target update; its last
\* statements (updateGameStatus, highlightLastMove) are in movePiece below.
ApplyMove(st, fromRow, fromCol, toRow, toCol) ==
    LET b0 == st.board
        piece == b0[fromRow][fromCol]
        ep == st.enPassantTarget
        \* En passant capture
        epCapture ==
            /\ piece.type = "Pawn"
            /\ Abs(toCol - fromCol) = 1
            /\ b0[toRow][toCol] = NoPiece
            /\ ep # NoSquare
            /\ ep.row = toRow /\ ep.col = toCol
            /\ b0[fromRow][toCol] # NoPiece
        cap1 == IF epCapture
                THEN LET cap == b0[fromRow][toCol] IN
                     [present |-> TRUE, type |-> cap.type, color |-> cap.color,
                      hasMoved |-> cap.hasMoved, row |-> fromRow, col |-> toCol]
                ELSE NoCaptured
        b1 == IF epCapture THEN [b0 EXCEPT ![fromRow][toCol] = NoPiece] ELSE b0
        \* Normal capture
        destPiece == b1[toRow][toCol]
        cap2 == IF destPiece # NoPiece
                THEN [present |-> TRUE, type |-> destPiece.type,
                      color |-> destPiece.color, hasMoved |-> destPiece.hasMoved,
                      row |-> toRow, col |-> toCol]
                ELSE cap1
        capturedValue == IF destPiece # NoPiece THEN pieceValue(destPiece) ELSE 0
        ws == IF piece.color = White THEN st.whiteScore + capturedValue
              ELSE st.whiteScore
        bs == IF piece.color = White THEN st.blackScore
              ELSE st.blackScore + capturedValue
        \* Castling move
        isCastle == piece.type = "King" /\ Abs(toCol - fromCol) = 2
        rookFrom == IF toCol > fromCol THEN BOARD_SIZE - 1 ELSE 0
        rookTo == IF toCol > fromCol THEN fromCol + 1 ELSE fromCol - 1
        rook == b1[fromRow][rookFrom]
        castles == isCastle /\ rook # NoPiece
        cast == IF castles
                THEN [present |-> TRUE, rookFrom |-> rookFrom, rookTo |-> rookTo,
                      rook |-> rook, oldHasMoved |-> rook.hasMoved]
                ELSE NoCastling
        b2 == IF castles
              THEN [[b1 EXCEPT ![fromRow][rookFrom] = NoPiece]
                        EXCEPT ![fromRow][rookTo] = rook]
              ELSE b1
        moveRecord ==
            [fromRow |-> fromRow, fromCol |-> fromCol,
             toRow |-> toRow, toCol |-> toCol,
             color |-> piece.color,
             oldType |-> piece.type, oldHasMoved |-> piece.hasMoved,
             captured |-> cap2, castling |-> cast,
             oldEnPassantTarget |-> ep]
        \* the move itself, hasMoved, pawn promotion
        moved == promoted([piece EXCEPT !.hasMoved = TRUE], toRow)
        b3 == [[b2 EXCEPT ![toRow][toCol] = moved]
                   EXCEPT ![fromRow][fromCol] = NoPiece]
        newEp == enPassantTargetAfter(moved, fromRow, fromCol, toRow)
    IN [st EXCEPT !.board = b3,
                  !.moveHistory = Append(@, moveRecord),
                  !.whiteScore = ws,
                  !.blackScore = bs,
                  !.enPassantTarget = newEp]

movePiece(st, fromRow, fromCol, toRow, toCol) ==
    IF st.board[fromRow][fromCol] = NoPiece THEN st
    ELSE updateGameStatus(ApplyMove(st, fromRow, fromCol, toRow, toCol))

FlipTurn(st) == [st EXCEPT !.currentTurn = OtherColor(@)]

\* An undo that flips the turn whatever the history holds.
undoFlipsTurn(st) == [st EXCEPT !.currentTurn = OtherColor(@)]

\* The record's rook is the Piece object castling relocated; the object's
\* type and color are those recorded, and undo resets its hasMoved.
undoLastMove(st) ==
    IF st.gameState = "MainMenu" \/ st.gameState = "GameOver" THEN st
    ELSE IF Len(st.moveHistory) = 0 THEN st
    ELSE
    LET move == st.moveHistory[Len(st.moveHistory)]
        b0 == st.board
        movedPiece == b0[move.toRow][move.toCol]
        b1 == IF movedPiece # NoPiece
              THEN [[b0 EXCEPT ![move.fromRow][move.fromCol] =
                                   [movedPiece EXCEPT !.type = move.oldType,
                                                      !.hasMoved = move.oldHasMoved]]
                        EXCEPT ![move.toRow][move.toCol] = NoPiece]
              ELSE b0
        cap == move.captured
        restored == [type |-> cap.type, color |-> cap.color, hasMoved |-> cap.hasMoved]
        b2 == IF cap.present THEN [b1 EXCEPT ![cap.row][cap.col] = restored] ELSE b1
        capturedValue == IF cap.present THEN pieceValue(restored) ELSE 0
        bs == IF cap.present /\ restored.color = White
              THEN st.blackScore - capturedValue ELSE st.blackScore
        ws == IF cap.present /\ restored.color # White
              THEN st.whiteScore - capturedValue ELSE st.whiteScore
        cast == move.castling
        b3 == IF cast.present
              THEN [[b2 EXCEPT ![move.fromRow][cast.rookFrom] =
                                   [cast.rook EXCEPT !.hasMoved = cast.oldHasMoved]]
                        EXCEPT ![move.fromRow][cast.rookTo] = NoPiece]
              ELSE b2
    IN [st EXCEPT !.moveHistory = SubSeq(@, 1, Len(@) - 1),
                  !.board = b3,
                  !.blackScore = bs,
                  !.whiteScore = ws,
                  !.enPassantTarget = move.oldEnPassantTarget,
                  !.currentTurn = OtherColor(@)]

\* initBoard: the initial placement, no en-passant target
initBoard(st) == [st EXCEPT !.board = InitialBoard, !.enPassantTarget = NoSquare]

newGame(st) ==
    IF st.gameState = "Playing"
    THEN initBoard([st EXCEPT !.gameOver = FALSE,
                              !.currentTurn = White,
                              !.moveHistory = << >>,
                              !.whiteScore = 0,
                              !.blackScore = 0])
    ELSE st

-----------------------------------------------------------------------------
(* Input handling.  The arrow handlers only move the cursor while a game is *)
(* played (every cell is within reach of every other), so a press of A is   *)
(* taken together with the cell (cursorRow, cursorCol) the cursor was       *)
(* brought to.                                                              *)

createMainMenu(st) == [st EXCEPT !.gameState = "MainMenu"]

\* controller.A dereferences board[fromRow][fromCol] when the cursor is on
\* the selected cell: with the cell empty the handler throws and the program
\* stops.
controllerAThrows(st, cursorRow, cursorCol) ==
    /\ st.gameState = "Playing"
    /\ ~st.gameOver
    /\ st.selectedPiece # NoSquare
    /\ st.selectedPiece.row = cursorRow
    /\ st.selectedPiece.col = cursorCol
    /\ st.board[cursorRow][cursorCol] = NoPiece

controllerA(st, cursorRow, cursorCol) ==
    IF st.gameState = "GameOver" THEN createMainMenu(st)
    ELSE IF st.gameState = "MainMenu"
    THEN [initBoard([st EXCEPT !.gameType =
                                   IF st.menuSelection = 0 THEN "TwoPlayer" ELSE "AI"])
              EXCEPT !.gameState = "Playing"]
    ELSE IF st.gameOver THEN st
    ELSE IF st.selectedPiece = NoSquare
    THEN LET piece == st.board[cursorRow][cursorCol] IN
         IF piece # NoPiece /\ piece.color = st.currentTurn
         THEN [st EXCEPT !.selectedPiece = Square(cursorRow, cursorCol)]
         ELSE st
    ELSE
    LET fromRow == st.selectedPiece.row
        fromCol == st.selectedPiece.col
        after ==
            IF fromRow = cursorRow /\ fromCol = cursorCol THEN st
            ELSE IF isLegalMove(st.board, st.enPassantTarget,
                                fromRow, fromCol, cursorRow, cursorCol)
            THEN updateGameStatus(
                     FlipTurn(movePiece(st, fromRow, fromCol, cursorRow, cursorCol)))
            ELSE st
    IN [after EXCEPT !.selectedPiece = NoSquare]

controllerB(st) ==
    IF st.gameState = "GameOver" THEN newGame(st)
    ELSE IF st.gameState = "Playing"
    THEN IF st.gameType = "AI"
         THEN undoLastMove(undoLastMove(st))
         ELSE undoLastMove(st)
    ELSE st

\* controller.B of the first variant: its test is the enum member
\* GameType.AI itself, which is 1 and so true in every game, and its
\* undoLastMove is statement for statement the one above.
controllerBFirstVariant(st) == undoLastMove(undoLastMove(st))

controllerMenu(st) ==
    IF st.gameState = "MainMenu" /\ st.menuSelection = 1
    THEN [st EXCEPT !.aiSearchDepth = IF @ < 5 THEN @ + 1 ELSE 2]
    ELSE IF st.gameState = "GameOver" \/ st.gameState = "Playing"
    THEN newGame(st)
    ELSE st

\* controller.left / up (delta = -1) and right / down (delta = 1) on the
\* main menu
controllerArrow(st, delta) ==
    IF st.gameState = "MainMenu"
    THEN IF delta < 0
         THEN [st EXCEPT !.menuSelection = IF @ > 0 THEN @ - 1 ELSE @]
         ELSE [st EXCEPT !.menuSelection = IF @ < 1 THEN @ + 1 ELSE @]
    ELSE st

-----------------------------------------------------------------------------
(* The AI.  game.onUpdate calls aiMove, which starts a fiber; the fiber     *)
(* yields inside minimax and quiesce (pause), so handlers run between its   *)
(* steps.  A root call of minimax returns one of the moves of               *)
(* getAllLegalMoves(board, Black), read when the call starts, or no move    *)
(* when there is none: the step below takes any of them.                    *)

getAllLegalMoves(b, ep, color) ==
    UNION {{Move(from[1], from[2], to[1], to[2]) :
                to \in {t \in Rows \X Cols :
                           isLegalMove(b, ep, from[1], from[2], t[1], t[2])}} :
           from \in {f \in Rows \X Cols :
                        b[f[1]][f[2]] # NoPiece /\ b[f[1]][f[2]].color = color}}

\* the guard of game.onUpdate and of aiMove
aiMoveStarts(st) ==
    /\ st.gameState = "Playing"
    /\ st.gameType = "AI"
    /\ st.currentTurn = Black
    /\ ~st.aiThinking
    /\ ~st.gameOver

aiMoveStart(st) ==
    [st EXCEPT !.aiThinking = TRUE, !.aiPc = "search", !.bestSoFar = NoMove]

\* A start of the fiber that does not look at aiThinking.
aiMoveAgain(st) == aiMoveStart(st)

\* aiMove up to control.runInParallel: nothing while a search is in flight
aiMove(st) == IF st.aiThinking THEN st ELSE aiMoveStart(st)

\* simulateMove: the piece goes to its destination on the board b given
simulateMove(b, fromRow, fromCol, toRow, toCol) ==
    IF b[fromRow][fromCol] = NoPiece THEN b
    ELSE [[b EXCEPT ![toRow][toCol] = b[fromRow][fromCol]]
              EXCEPT ![fromRow][fromCol] = NoPiece]

\* A legality test on the board b that leaves b in the global board.
boardLeftSwapped(st, b, simBoards) == [st EXCEPT !.board = b]

\* The globals after isLegalMoveForBoard(b, ...): the global board is set
\* to b for the test and then set back to the board it was.  Below the test,
\* for every clone of simBoards that isLegalMoveSimulated has made,
\* canPieceAttack sets the global board to the clone and sets it back to
\* the board it met.
isLegalMoveForBoard(st, b, simBoards) ==
    LET oldBoard == st.board
        swapped == [st EXCEPT !.board = b]
        attackTested[n \in 0..Len(simBoards)] ==
            IF n = 0 THEN swapped
            ELSE LET met == attackTested[n - 1].board
                     pointed == [attackTested[n - 1] EXCEPT !.board = simBoards[n]]
                 IN [pointed EXCEPT !.board = met]
    IN [attackTested[Len(simBoards)] EXCEPT !.board = oldBoard]

\* Turns of the loop for (d = 1; d <= aiSearchDepth; d++) that no handler
\* separates, with the move the last root call returns (NoMove for none).
\* The turns are not counted: aiSearchDepth >= 2, and turns on an unchanged
\* board leave the bestSoFar of the last one.  The search tests moves on
\* the board itself at the root and below it on clones with the moves made
\* by simulateMove.
aiMoveIterate(st, move) ==
    LET root == isLegalMoveForBoard(st, st.board,
                    IF move = NoMove THEN << >>
                    ELSE <<SimulatedBoard(st.board, move.fromRow, move.fromCol,
                                          move.toRow, move.toCol)>>)
        searched ==
            IF move = NoMove THEN root
            ELSE isLegalMoveForBoard(root,
                     simulateMove(cloneBoard(root.board), move.fromRow,
                                  move.fromCol, move.toRow, move.toCol),
                     << >>)
    IN [searched EXCEPT !.bestSoFar = IF move # NoMove THEN move ELSE @,
                        !.aiPc = "searched"]

\* the fiber after the loop
aiMoveFinish(st) ==
    IF st.bestSoFar # NoMove
    THEN LET m == st.bestSoFar
             played == [movePiece(st, m.fromRow, m.fromCol, m.toRow, m.toCol)
                            EXCEPT !.currentTurn = White, !.lastAIMove = m]
         IN [updateGameStatus(played) EXCEPT !.aiThinking = FALSE,
                                             !.aiPc = "idle"]
    ELSE LET over == [st EXCEPT !.gameOver = TRUE, !.gameState = "GameOver"]
         IN [createGameOverMenu(over,
                 IF isKingInCheck(Black, over.board) THEN "win" ELSE "tie")
                 EXCEPT !.aiPc = "idle"]

-----------------------------------------------------------------------------
(* The search.  minimax and quiesce read the global enPassantTarget through *)
(* isLegalMove; it is their argument ep here.  Array.sort is taken to keep  *)
(* the moves of equal captured value in the order getAllLegalMoves found    *)
(* them.                                                                    *)

\* the moves of a set in the order of getAllLegalMoves' four loops
\* The moves of a set from the squares froms, in the order in which the
\* loops of getAllLegalMoves push them: by the square left (rows, then
\* columns), then by the square reached.
RECURSIVE movesFrom(_, _)
movesFrom(moves, froms) ==
    IF froms = << >> THEN << >>
    ELSE SelectSeq([k \in 1..(BOARD_SIZE * BOARD_SIZE) |->
                       Move(Head(froms)[1], Head(froms)[2], Cells[k][1], Cells[k][2])],
                   LAMBDA m : m \in moves)
         \o movesFrom(moves, Tail(froms))

movesInOrder(moves) ==
    movesFrom(moves, SelectSeq(Cells, LAMBDA sq :
                         \E m \in moves : m.fromRow = sq[1] /\ m.fromCol = sq[2]))

\* valA, valB of the comparators: the value of the piece on the destination
capturedValue(b, m) ==
    IF b[m.toRow][m.toCol] # NoPiece THEN pieceValue(b[m.toRow][m.toCol]) ELSE 0

\* The captured values in the order the comparator
\* maximizingPlayer ? (valB - valA) : (valA - valB) puts them.
comparatorValues(maximizingPlayer) ==
    IF maximizingPlayer THEN <<20, 9, 5, 3, 1, 0>> ELSE <<0, 1, 3, 5, 9, 20>>

\* moves.sort(...) of minimax and quiesce
sortMoves(b, moves, maximizingPlayer) ==
    LET values == comparatorValues(maximizingPlayer)
        valued(i) == SelectSeq(moves, LAMBDA m : capturedValue(b, m) = values[i])
    IN valued(1) \o valued(2) \o valued(3) \o valued(4) \o valued(5) \o valued(6)

\* the move list of minimax
minimaxMoves(b, ep, maximizingPlayer) ==
    sortMoves(b, movesInOrder(getAllLegalMoves(b, ep,
                  IF maximizingPlayer THEN Black ELSE White)), maximizingPlayer)

\* A move list of quiesce without its filter: every legal move.
everyMoveKept(b, ep, maximizingPlayer) ==
    sortMoves(b, movesInOrder(getAllLegalMoves(b, ep,
                  IF maximizingPlayer THEN Black ELSE White)), maximizingPlayer)

\* the move list of quiesce: the moves onto a piece
quiesceMoves(b, ep, maximizingPlayer) ==
    sortMoves(b, SelectSeq(movesInOrder(getAllLegalMoves(b, ep,
                               IF maximizingPlayer THEN Black ELSE White)),
                           LAMBDA m : b[m.toRow][m.toCol] # NoPiece),
              maximizingPlayer)

\* the clone of b with the move m made by simulateMove
simulated(b, m) ==
    simulateMove(cloneBoard(b), m.fromRow, m.fromCol, m.toRow, m.toCol)

\* alpha and beta, and whether alpha >= beta
window(alpha, beta) == [alpha |-> alpha, beta |-> beta, closed |-> ~Less(alpha, beta)]

\* alpha and beta after a score: the maximizing player raises alpha to a
\* higher score, the minimizing player lowers beta to a lower one
narrowed(alpha, beta, score, maximizingPlayer) ==
    IF maximizingPlayer
    THEN IF Less(alpha, score) THEN window(score, beta) ELSE window(alpha, beta)
    ELSE IF Less(score, beta) THEN window(alpha, score) ELSE window(alpha, beta)

RECURSIVE quiesce(_, _, _, _, _)
RECURSIVE quiesceLoop(_, _, _, _, _)
quiesce(b, ep, alpha, beta, maximizingPlayer) ==
    quiesceLoop(b, ep, quiesceMoves(b, ep, maximizingPlayer),
                narrowed(alpha, beta, staticEvaluation(b), maximizingPlayer),
                maximizingPlayer)

\* if (alpha >= beta) return ... and for (let m of moves) of quiesce, from
\* the move Head(moves) on: a score that does not move alpha (beta) leaves
\* alpha < beta, so the test after every move is the break of the loop
quiesceLoop(b, ep, moves, bounds, maximizingPlayer) ==
    IF bounds.closed \/ moves = << >>
    THEN IF maximizingPlayer THEN bounds.alpha ELSE bounds.beta
    ELSE quiesceLoop(b, ep, Tail(moves),
                     narrowed(bounds.alpha, bounds.beta,
                              quiesce(simulated(b, Head(moves)), ep, bounds.alpha,
                                      bounds.beta, ~maximizingPlayer),
                              maximizingPlayer),
                     maximizingPlayer)

\* A search that returns the first move of its list.
minimaxFirst(b, ep, depth, alpha, beta, maximizingPlayer) ==
    [score |-> staticEvaluation(b),
     move |-> IF minimaxMoves(b, ep, maximizingPlayer) = << >> THEN NoMove
              ELSE Head(minimaxMoves(b, ep, maximizingPlayer))]

\* Math.max and Math.min
MathMax(x, y) == IF Less(x, y) THEN y ELSE x
MathMin(x, y) == IF Less(y, x) THEN y ELSE x

\* A turn of minimax's loop that always ends in the break.
evaluatedAndBroke(best, evalScore, m, maximizingPlayer) ==
    [score |-> IF maximizingPlayer THEN MathMax(best.score, evalScore)
               ELSE MathMin(best.score, evalScore),
     move |-> IF Less(best.score, evalScore) = maximizingPlayer
                 /\ best.score # evalScore THEN m ELSE best.move,
     alpha |-> best.alpha,
     beta |-> best.beta,
     broke |-> TRUE]

\* One turn of minimax's loop: maxEval (minEval) with bestMove, alpha and
\* beta, and whether the turn ends in the break, after the move m was
\* searched to evalScore.
evaluated(best, evalScore, m, maximizingPlayer) ==
    IF maximizingPlayer
    THEN [score |-> MathMax(best.score, evalScore),
          move |-> IF Less(best.score, evalScore) THEN m ELSE best.move,
          alpha |-> MathMax(best.alpha, evalScore),
          beta |-> best.beta,
          broke |-> ~Less(MathMax(best.alpha, evalScore), best.beta)]
    ELSE [score |-> MathMin(best.score, evalScore),
          move |-> IF Less(evalScore, best.score) THEN m ELSE best.move,
          alpha |-> best.alpha,
          beta |-> MathMin(best.beta, evalScore),
          broke |-> ~Less(best.alpha, MathMin(best.beta, evalScore))]

RECURSIVE minimax(_, _, _, _, _, _)
RECURSIVE minimaxLoop(_, _, _, _, _, _, _, _)
minimax(b, ep, depth, alpha, beta, maximizingPlayer) ==
    LET moves == minimaxMoves(b, ep, maximizingPlayer) IN
    IF depth = 0 \/ moves = << >>
    THEN [score |-> quiesce(b, ep, alpha, beta, maximizingPlayer), move |-> NoMove]
    ELSE LET best == minimaxLoop(b, ep, depth, moves, 1, Len(moves),
                         [score |-> Number(IF maximizingPlayer THEN -100000 ELSE 100000),
                          move |-> NoMove, alpha |-> alpha, beta |-> beta],
                         maximizingPlayer)
         IN [score |-> best.score, move |-> best.move]

\* The turns first..last of for (let m of moves) of minimax, up to its
\* break: one turn, or the turns of the first half and, unless they end in
\* the break, those of the second half.
minimaxLoop(b, ep, depth, moves, first, last, best, maximizingPlayer) ==
    IF first = last
    THEN evaluated(best,
                   minimax(simulated(b, moves[first]), ep, depth - 1,
                           best.alpha, best.beta, ~maximizingPlayer).score,
                   moves[first], maximizingPlayer)
    ELSE
    LET half == minimaxLoop(b, ep, depth, moves, first, (first + last) \div 2,
                            best, maximizingPlayer)
    IN IF half.broke THEN half
       ELSE minimaxLoop(b, ep, depth, moves, (first + last) \div 2 + 1, last,
                        half, maximizingPlayer)

\* the call of aiMove's loop for the depth d
rootSearch(b, ep, d) == minimax(b, ep, d, Number(-100000), Number(100000), TRUE)

-----------------------------------------------------------------------------
(* Games.  A game is the list of the moves <<fromRow, fromCol, toRow,       *)
(* toCol>> two players enter with the A button from the main menu; the      *)
(* model starts from the program's start and from the positions these       *)
(* games lead to, each reached by the handlers themselves.                  *)

\* 1.e4 a6 2.e5 h6 3.c4 d5: White may capture e5xd6 en passant
EnPassantGame ==
    <<
       <<6, 4, 4, 4>>, <<1, 0, 2, 0>>, <<4, 4, 3, 4>>, <<1, 7, 2, 7>>,
       <<6, 2, 4, 2>>, <<1, 3, 3, 3>>
    >>

\* 1.d4 d5 2.Bf4 a6 3.Qd3 b6 4.Nf3 h6 5.e3 g6 6.Be2 e6: f1, g1, c1 and d1 are empty, the knight is on b1
CastlingGame ==
    <<
       <<6, 3, 4, 3>>, <<1, 3, 3, 3>>, <<7, 2, 4, 5>>, <<1, 0, 2, 0>>,
       <<7, 3, 5, 3>>, <<1, 1, 2, 1>>, <<7, 6, 5, 5>>, <<1, 7, 2, 7>>,
       <<6, 4, 5, 4>>, <<1, 6, 2, 6>>, <<7, 5, 6, 4>>, <<1, 4, 2, 4>>
    >>

\* 1.h4 g5 2.hxg5 a6 3.g6 a5 4.gxh7 a4: White may play h7xg8
PromotionGame ==
    <<
       <<6, 7, 4, 7>>, <<1, 6, 3, 6>>, <<4, 7, 3, 6>>, <<1, 0, 2, 0>>,
       <<3, 6, 2, 6>>, <<2, 0, 3, 0>>, <<2, 6, 1, 7>>, <<3, 0, 4, 0>>
    >>

\* 1.f3 e5 2.g4: Black may play Qh4 mate
FoolsMateGame ==
    <<
       <<6, 5, 5, 5>>, <<1, 4, 3, 4>>, <<6, 6, 4, 6>>
    >>

\* 1.e4 e5 2.Qh5 Ke7: White may play Qxe5 mate
QueenMateGame ==
    <<
       <<6, 4, 4, 4>>, <<1, 4, 3, 4>>, <<7, 3, 3, 7>>, <<0, 4, 1, 4>>
    >>

\* 1.e3 a5 2.Qh5 Ra6 3.Qxa5 h5 4.h4 Rah6 5.Qxc7 f6 6.Qxb7 Kf7 7.Qxb8 Qc7
\* 8.Qxc8 Qxc2 9.Qxd7 Qh7 10.Qe6+: after 10...Kg6 no black piece can move
BlockedGame ==
    <<
       <<6, 4, 5, 4>>, <<1, 0, 3, 0>>, <<7, 3, 3, 7>>, <<0, 0, 2, 0>>,
       <<3, 7, 3, 0>>, <<1, 7, 3, 7>>, <<6, 7, 4, 7>>, <<2, 0, 2, 7>>,
       <<3, 0, 1, 2>>, <<1, 5, 2, 5>>, <<1, 2, 1, 1>>, <<0, 4, 1, 5>>,
       <<1, 1, 0, 1>>, <<0, 3, 1, 2>>, <<0, 1, 0, 2>>, <<1, 2, 6, 2>>,
       <<0, 2, 1, 3>>, <<6, 2, 1, 7>>, <<1, 3, 2, 4>>
    >>

\* 1.e4 e5 2.Qh5 Ke7 3.a3 Kd6 4.a4 Ke7: White may play Qxe5 mate
KingWalkGame ==
    <<
       <<6, 4, 4, 4>>, <<1, 4, 3, 4>>, <<7, 3, 3, 7>>, <<0, 4, 1, 4>>,
       <<6, 0, 5, 0>>, <<1, 4, 2, 3>>, <<5, 0, 4, 0>>, <<2, 3, 1, 4>>
    >>

\* the presses that enter a move: A on the piece, A on the destination
MovePresses(st, m) == controllerA(controllerA(st, m[1], m[2]), m[3], m[4])

RECURSIVE Replay(_, _)
Replay(st, moves) ==
    IF moves = << >> THEN st
    ELSE Replay(MovePresses(st, Head(moves)), Tail(moves))

\* A pressed on the main menu, then the moves
TwoPlayerGame(moves) == Replay(controllerA(StartState, 0, 0), moves)

\* the AI's whole turn when its search returns the move m
AIReplies(st, m) ==
    LET move == Move(m[1], m[2], m[3], m[4]) IN
    IF /\ aiMoveStarts(st)
       /\ move \in getAllLegalMoves(st.board, st.enPassantTarget, Black)
    THEN aiMoveFinish(aiMoveIterate(aiMoveStart(st), move))
    ELSE st

\* White's moves are entered, Black's are the AI's
RECURSIVE ReplayAgainstAI(_, _)
ReplayAgainstAI(st, moves) ==
    IF moves = << >> THEN st
    ELSE IF st.currentTurn = White
    THEN ReplayAgainstAI(MovePresses(st, Head(moves)), Tail(moves))
    ELSE ReplayAgainstAI(AIReplies(st, Head(moves)), Tail(moves))

\* right, then A pressed on the main menu, then the moves
GameAgainstAI(moves) ==
    ReplayAgainstAI(controllerA(controllerArrow(StartState, 1), 0, 0), moves)

\* 3.Qxe5 mate ends QueenMateGame
QueenMate == TwoPlayerGame(QueenMateGame \o << <<3, 7, 3, 4>> >>)

\* 5.Qxe5 mate ends KingWalkGame; A on the game-over menu leads to the main
\* menu, and A there starts the next two-player game.
Restarted ==
    controllerA(controllerA(
        TwoPlayerGame(KingWalkGame \o << <<3, 7, 3, 4>> >>), 0, 0), 0, 0)

\* Against the AI after 1.e4 the search has returned 1...e5, and the fiber
\* is still to make the move.
FirstReply ==
    aiMoveIterate(aiMove(GameAgainstAI(<< <<6, 4, 4, 4>> >>)), Move(1, 4, 3, 4))

\* In FoolsMateGame against the AI the fiber has started its search for
\* Black's second move.
SearchStarted == aiMove(GameAgainstAI(FoolsMateGame))

\* In FoolsMateGame against the AI the fiber has started; while it searches,
\* 2...Qh4 mate is entered with the buttons.
MateWhileAIThinks ==
    MovePresses(aiMoveStart(GameAgainstAI(FoolsMateGame)), <<0, 3, 4, 7>>)

\* the games the model starts after, each up to a position of interest
TwoPlayerGames ==
    {EnPassantGame, CastlingGame, PromotionGame, FoolsMateGame, QueenMateGame,
     BlockedGame}

StartStates ==
    {StartState, QueenMate, Restarted, FirstReply,
     GameAgainstAI(FoolsMateGame), SearchStarted, MateWhileAIThinks}
        \cup {TwoPlayerGame(g) : g \in TwoPlayerGames}

-----------------------------------------------------------------------------
(* Bound of the exploration *)

\* handler runs and fiber steps after the start state
MaxSteps == 3

-----------------------------------------------------------------------------
(* The specification *)

\* one more step: the variables take the state record n
Becomes(n) ==
    /\ steps' = steps + 1
    /\ board' = n.board
    /\ enPassantTarget' = n.enPassantTarget
    /\ moveHistory' = n.moveHistory
    /\ currentTurn' = n.currentTurn
    /\ selectedPiece' = n.selectedPiece
    /\ gameOver' = n.gameOver
    /\ gameType' = n.gameType
    /\ gameState' = n.gameState
    /\ menuSelection' = n.menuSelection
    /\ gameOverMenu' = n.gameOverMenu
    /\ whiteScore' = n.whiteScore
    /\ blackScore' = n.blackScore
    /\ aiThinking' = n.aiThinking
    /\ aiSearchDepth' = n.aiSearchDepth
    /\ aiPc' = n.aiPc
    /\ bestSoFar' = n.bestSoFar
    /\ lastAIMove' = n.lastAIMove
    /\ evaluation' = evaluation

InitFrom(states) ==
    /\ \E s \in states :
        /\ board = s.board
        /\ enPassantTarget = s.enPassantTarget
        /\ moveHistory = s.moveHistory
        /\ currentTurn = s.currentTurn
        /\ selectedPiece = s.selectedPiece
        /\ gameOver = s.gameOver
        /\ gameType = s.gameType
        /\ gameState = s.gameState
        /\ menuSelection = s.menuSelection
        /\ gameOverMenu = s.gameOverMenu
        /\ whiteScore = s.whiteScore
        /\ blackScore = s.blackScore
        /\ aiThinking = s.aiThinking
        /\ aiSearchDepth = s.aiSearchDepth
        /\ aiPc = s.aiPc
        /\ bestSoFar = s.bestSoFar
        /\ lastAIMove = s.lastAIMove
    /\ evaluation = NoNumber
    /\ steps = 0

Init == InitFrom(StartStates)

PressA(cursorRow, cursorCol) ==
    /\ steps < MaxSteps
    /\ ~controllerAThrows(St, cursorRow, cursorCol)
    /\ Becomes(controllerA(St, cursorRow, cursorCol))

PressB ==
    /\ steps < MaxSteps
    /\ Becomes(controllerB(St))

PressMenu ==
    /\ steps < MaxSteps
    /\ Becomes(controllerMenu(St))

PressArrow(delta) ==
    /\ steps < MaxSteps
    /\ Becomes(controllerArrow(St, delta))

\* game.onUpdate
AIStart ==
    /\ steps < MaxSteps
    /\ aiMoveStarts(St)
    /\ Becomes(aiMove(St))

AIIterate ==
    /\ steps < MaxSteps
    /\ aiPc \in {"search", "searched"}
    /\ LET moves == getAllLegalMoves(board, enPassantTarget, Black) IN
       \E move \in (IF moves = {} THEN {NoMove} ELSE moves) :
           Becomes(aiMoveIterate(St, move))

AIFinish ==
    /\ steps < MaxSteps
    /\ aiPc = "searched"
    /\ Becomes(aiMoveFinish(St))

Next ==
    \/ \E r \in Rows, c \in Cols : PressA(r, c)
    \/ PressB
    \/ PressMenu
    \/ \E delta \in {-1, 1} : PressArrow(delta)
    \/ AIStart
    \/ AIIterate
    \/ AIFinish

Spec == Init /\ [][Next]_vars

-----------------------------------------------------------------------------
(* The evaluation and the search as functions of the position.  The second  *)
(* specification starts in a game against the AI whose fiber has started    *)
(* its search, on a board with the two Kings and one or two more pieces;    *)
(* its steps are the calls the search makes on the board: staticEvaluation, *)
(* simulateMove on a clone (one ply down for either side), and the root     *)
(* call of minimax for the depth 1.  The move history of these games is     *)
(* left out.                                                                *)

\* a piece that has moved
Moved(t, c) == [type |-> t, color |-> c, hasMoved |-> TRUE]

\* the Kings on e8 and e1 and the pieces placed: a set of <<row, col, piece>>
KingsAnd(placed) ==
    [r \in Rows |-> [c \in Cols |->
        IF \E p \in placed : p[1] = r /\ p[2] = c
        THEN (CHOOSE p \in placed : p[1] = r /\ p[2] = c)[3]
        ELSE IF r = 0 /\ c = 4 THEN Moved("King", Black)
        ELSE IF r = BOARD_SIZE - 1 /\ c = 4 THEN Moved("King", White)
        ELSE NoPiece]]

BlackSquares == {<<0, 3>>, <<2, 5>>, <<3, 1>>}
WhiteSquares == {<<6, 3>>, <<4, 3>>, <<5, 6>>}
LoneSquares == {<<0, 1>>, <<0, 2>>, <<5, 5>>}

SearchBoards ==
    {KingsAnd({<<bs[1], bs[2], Moved(bt, Black)>>, <<ws[1], ws[2], Moved(wt, White)>>}) :
        bs \in BlackSquares, bt \in {"Queen", "Rook", "Knight"},
        ws \in WhiteSquares, wt \in {"Queen", "Pawn", "Knight"}}
    \cup {KingsAnd({<<sq[1], sq[2], Moved(t, c)>>}) :
            sq \in LoneSquares, t \in {"Queen", "Knight"}, c \in {White, Black}}
    \cup {KingsAnd({<<0, 2, Moved("Bishop", Black)>>, <<0, 5, Moved("Bishop", Black)>>,
                    <<4, 3, Moved("Knight", White)>>})}

\* the fiber has started its search on the board b
Searching(b) ==
    [StartState EXCEPT !.board = b, !.gameType = "AI", !.gameState = "Playing",
                       !.menuSelection = 1, !.currentTurn = Black,
                       !.aiThinking = TRUE, !.aiPc = "search"]

\* plies below the root
MaxPly == 1

SearchInit == InitFrom({Searching(b) : b \in SearchBoards})

\* the variables no step of the search writes
globals == <<enPassantTarget, moveHistory, currentTurn, selectedPiece, gameOver,
             gameType, gameState, menuSelection, gameOverMenu, whiteScore,
             blackScore, aiThinking, aiSearchDepth, lastAIMove>>

\* let standPat = staticEvaluation(b)
Evaluate ==
    /\ evaluation = NoNumber
    /\ evaluation' = staticEvaluation(board)
    /\ UNCHANGED <<board, aiPc, bestSoFar, steps, globals>>

\* cloneBoard and simulateMove: the board one ply down, for either side
Ply ==
    /\ aiPc = "search"
    /\ steps < MaxPly
    /\ \E maximizingPlayer \in BOOLEAN :
        \E m \in getAllLegalMoves(board, enPassantTarget,
                                  IF maximizingPlayer THEN Black ELSE White) :
            board' = simulated(board, m)
    /\ steps' = steps + 1
    /\ evaluation' = NoNumber
    /\ UNCHANGED <<aiPc, bestSoFar, globals>>

\* the turn d = 1 of aiMove's loop
SearchDepth1 ==
    /\ aiPc = "search"
    /\ steps = 0
    /\ LET result == rootSearch(board, enPassantTarget, 1) IN
       bestSoFar' = IF result.move # NoMove THEN result.move ELSE bestSoFar
    /\ aiPc' = "searched"
    /\ UNCHANGED <<board, evaluation, steps, globals>>

SearchNext == Evaluate \/ Ply \/ SearchDepth1

SearchSpec == SearchInit /\ [][SearchNext]_vars

\* The fourth specification is aiMove's loop over the depths: it starts in
\* a game against the AI with the depth 2 or 3 chosen on the menu and the
\* fiber at its loop, on a board with the two Kings, a Black pawn or knight and a
\* White pawn or knight; steps counts the turns of the loop made.
DeepBoards ==
    {KingsAnd({<<bs[1], bs[2], Moved(bt, Black)>>, <<ws[1], ws[2], Moved(wt, White)>>}) :
        bs \in {<<3, 3>>, <<2, 5>>, <<3, 4>>}, bt \in {"Pawn", "Knight"},
        ws \in {<<4, 4>>, <<5, 2>>, <<4, 2>>}, wt \in {"Pawn", "Knight"}}

\* the depth chosen on the menu: 3 on the boards of two pawns, 2 on the others
DepthChosen(b) ==
    IF \A r \in Rows, c \in Cols : b[r][c].type \in {"None", "King", "Pawn"}
    THEN 3 ELSE 2

DeepeningInit ==
    InitFrom({[Searching(b) EXCEPT !.aiSearchDepth = DepthChosen(b)] : b \in DeepBoards})

\* the turn d = steps + 1 of for (let d = 1; d <= aiSearchDepth; d++)
SearchTurn ==
    /\ aiPc = "search"
    /\ steps < aiSearchDepth
    /\ LET result == rootSearch(board, enPassantTarget, steps + 1) IN
       bestSoFar' = IF result.move # NoMove THEN result.move ELSE bestSoFar
    /\ steps' = steps + 1
    /\ aiPc' = IF steps + 1 = aiSearchDepth THEN "searched" ELSE "search"
    /\ UNCHANGED <<board, evaluation, globals>>

DeepeningSpec == DeepeningInit /\ [][SearchTurn]_vars

-----------------------------------------------------------------------------
(* The first variant (src/main.ts, lines 1-1438).  Its board, movePiece and *)
(* undoLastMove are those above; its castling test asks less, its           *)
(* pieceValue gives a King no value, and its AI scans the legal moves and   *)
(* picks a capture of the highest value.  The AI's fiber has no pause: it   *)
(* runs from its snapshot to movePiece with no handler in between.  The     *)
(* third specification starts in a game against this AI after 1.e4 d5.      *)

pieceValueFirstVariant(piece) ==
    CASE piece.type = "Pawn"   -> 1
      [] piece.type = "Knight" -> 3
      [] piece.type = "Bishop" -> 3
      [] piece.type = "Rook"   -> 5
      [] piece.type = "Queen"  -> 9
      [] OTHER                 -> 0

\* isLegalMove with isLegalMoveSimulated and isLegalMoveBasic: the castling
\* branch tests check and the two attacked squares only.
isLegalMoveFirstVariant(b, ep, fromRow, fromCol, toRow, toCol) ==
    LET piece == b[fromRow][fromCol]
        dest == b[toRow][toCol]
        enemyColor == OtherColor(piece.color)
        step == IF toCol > fromCol THEN 1 ELSE -1
    IN
    /\ piece # NoPiece
    /\ ~(dest # NoPiece /\ dest.color = piece.color)
    /\ IF piece.type = "King" /\ Abs(toCol - fromCol) = 2 /\ toRow = fromRow
       THEN /\ ~isKingInCheck(piece.color, b)
            /\ ~isSquareAttacked(fromRow, fromCol + step, enemyColor, b)
            /\ ~isSquareAttacked(toRow, toCol, enemyColor, b)
       ELSE isLegalMoveBasic(b, ep, fromRow, fromCol, toRow, toCol, piece)
    /\ ~isKingInCheck(piece.color, SimulatedBoard(b, fromRow, fromCol, toRow, toCol))

\* the moves the scans of hasAnyLegalMove and aiMove find for a color
legalMovesFirstVariant(b, ep, color) ==
    {m \in {Move(from[1], from[2], to[1], to[2]) :
                from \in {f \in Rows \X Cols : b[f[1]][f[2]].color = color},
                to \in Rows \X Cols} :
        isLegalMoveFirstVariant(b, ep, m.fromRow, m.fromCol, m.toRow, m.toCol)}

\* hasAnyLegalMove scans every move; what it returns is whether there is one
hasAnyLegalMoveFirstVariant(b, ep, color) ==
    \E row \in Rows, col \in Cols :
        /\ b[row][col].color = color
        /\ \E r2 \in Rows, c2 \in Cols :
               isLegalMoveFirstVariant(b, ep, row, col, r2, c2)

updateGameStatusFirstVariant(st) ==
    IF st.gameOver THEN st
    ELSE LET inCheck == isKingInCheck(st.currentTurn, st.board) IN
         IF ~hasAnyLegalMoveFirstVariant(st.board, st.enPassantTarget, st.currentTurn)
         THEN [createGameOverMenu(st,
                   IF inCheck THEN IF st.currentTurn = White THEN "lose" ELSE "win"
                   ELSE "tie")
                   EXCEPT !.gameOver = TRUE, !.gameState = "GameOver"]
         ELSE st

\* movePiece: the score grows by this variant's value of the piece taken
movePieceFirstVariant(st, fromRow, fromCol, toRow, toCol) ==
    LET piece == st.board[fromRow][fromCol]
        destPiece == st.board[toRow][toCol]
        gained == IF destPiece # NoPiece
                         THEN pieceValueFirstVariant(destPiece) ELSE 0
    IN IF piece = NoPiece THEN st
       ELSE updateGameStatusFirstVariant(
                [ApplyMove(st, fromRow, fromCol, toRow, toCol) EXCEPT
                    !.whiteScore = IF piece.color = White
                                   THEN st.whiteScore + gained ELSE st.whiteScore,
                    !.blackScore = IF piece.color = White
                                   THEN st.blackScore ELSE st.blackScore + gained])

\* A choice of the AI that takes any capture, whatever it captures.
aiChoicesAnyCapture(b, ep) ==
    LET moves == legalMovesFirstVariant(b, ep, Black)
        captureMoves == {m \in moves : b[m.toRow][m.toCol] # NoPiece}
    IN IF captureMoves # {} THEN captureMoves
       ELSE IF moves # {} THEN moves ELSE {NoMove}

\* The moves chosenMove may be: bestMoves holds the captures whose target
\* has the highest value, and Math.randomRange picks one of them, or one of
\* the moves when there is no capture.
aiChoicesFirstVariant(b, ep) ==
    LET moves == legalMovesFirstVariant(b, ep, Black)
        captureMoves == {m \in moves : b[m.toRow][m.toCol] # NoPiece}
        val(m) == pieceValueFirstVariant(b[m.toRow][m.toCol])
        bestMoves == {m \in captureMoves : \A o \in captureMoves : val(o) <= val(m)}
    IN IF captureMoves # {} THEN bestMoves
       ELSE IF moves # {} THEN moves ELSE {NoMove}

\* aiMove with its fiber, chosenMove being the move picked (kept in
\* bestSoFar); with no move the fiber returns and leaves aiThinking set.
aiMoveFirstVariant(st, chosenMove) ==
    IF st.aiThinking THEN st
    ELSE IF chosenMove # NoMove
    THEN LET played == [movePieceFirstVariant(st, chosenMove.fromRow, chosenMove.fromCol,
                                              chosenMove.toRow, chosenMove.toCol)
                            EXCEPT !.currentTurn = White]
         IN [updateGameStatusFirstVariant(played) EXCEPT !.aiThinking = FALSE,
                                                         !.bestSoFar = chosenMove]
    ELSE [createGameOverMenu([st EXCEPT !.gameOver = TRUE],
              IF isKingInCheck(Black, st.board) THEN "win" ELSE "tie")
              EXCEPT !.aiThinking = TRUE]

controllerAFirstVariant(st, cursorRow, cursorCol) ==
    IF st.gameState = "MainMenu"
    THEN [initBoard([st EXCEPT !.gameType =
                                   IF st.menuSelection = 0 THEN "TwoPlayer" ELSE "AI"])
              EXCEPT !.gameState = "Playing"]
    ELSE IF st.gameState # "Playing" \/ st.gameOver THEN st
    ELSE IF st.selectedPiece = NoSquare
    THEN LET piece == st.board[cursorRow][cursorCol] IN
         IF piece # NoPiece /\ piece.color = st.currentTurn
         THEN [st EXCEPT !.selectedPiece = Square(cursorRow, cursorCol)]
         ELSE st
    ELSE
    LET fromRow == st.selectedPiece.row
        fromCol == st.selectedPiece.col
        after == IF isLegalMoveFirstVariant(st.board, st.enPassantTarget,
                                            fromRow, fromCol, cursorRow, cursorCol)
                 THEN FlipTurn(movePieceFirstVariant(st, fromRow, fromCol,
                                                     cursorRow, cursorCol))
                 ELSE st
    IN [after EXCEPT !.selectedPiece = NoSquare]

\* "AI" chosen on the main menu, 1.e4 entered with the A button, and 1...d5
\* the AI's pick among Black's twenty moves
FirstVariantStart ==
    LET menu == [StartState EXCEPT !.menuSelection = 1]
        e4 == controllerAFirstVariant(controllerAFirstVariant(
                  controllerAFirstVariant(menu, 0, 0), 6, 4), 4, 4)
    IN aiMoveFirstVariant(e4, Move(1, 3, 3, 3))

FirstVariantInit == InitFrom({FirstVariantStart})

FirstVariantPressA(cursorRow, cursorCol) ==
    /\ steps < MaxSteps
    /\ Becomes(controllerAFirstVariant(St, cursorRow, cursorCol))

\* game.onUpdate
FirstVariantAIMove ==
    /\ steps < MaxSteps
    /\ aiMoveStarts(St)
    /\ \E chosenMove \in aiChoicesFirstVariant(board, enPassantTarget) :
           Becomes(aiMoveFirstVariant(St, chosenMove))

FirstVariantNext ==
    \/ \E r \in Rows, c \in Cols : FirstVariantPressA(r, c)
    \/ FirstVariantAIMove

FirstVariantSpec == FirstVariantInit /\ [][FirstVariantNext]_vars

-----------------------------------------------------------------------------
(* The variant with the anti-repetition penalty (src/unnamed/part_000).     *)
(* Its rules, movePiece and updateGameStatus are those of the second        *)
(* variant and its pieceValue is the first variant's.  Its search has no    *)
(* move ordering and no quiescence, scores are integers, and aiMove calls   *)
(* it once, for the depth aiSearchDepth.  The fifth specification starts    *)
(* in a game against the AI at Black's turn, with a move in lastAIMove or   *)
(* none, and its step is game.onUpdate with the whole fiber of aiMove.      *)

\* score after the first n pieces the two loops meet: val is added for a
\* Black piece and subtracted for a White one
evaluateBoardForBoard(b) ==
    LET cells == occupiedCells(b)
        val(sq) == pieceValueFirstVariant(b[sq[1]][sq[2]])
        score[n \in 0..Len(cells)] ==
            IF n = 0 THEN 0
            ELSE IF b[cells[n][1]][cells[n][2]].color = Black
                 THEN score[n - 1] + val(cells[n])
                 ELSE score[n - 1] - val(cells[n])
    IN score[Len(cells)] + (IF isKingInCheck(White, b) THEN 50 ELSE 0)

\* A turn of the loop that passes over a move with a penalty.
scoredUnlessPenalised(best, evalScore, m, penalty, maximizingPlayer) ==
    IF maximizingPlayer /\ penalty > 0
    THEN [score |-> best.score, move |-> best.move,
          alpha |-> best.alpha, beta |-> best.beta, broke |-> FALSE]
    ELSE LET better == IF maximizingPlayer THEN evalScore > best.score
                       ELSE evalScore < best.score
         IN [score |-> IF better THEN evalScore ELSE best.score,
             move |-> IF better THEN m ELSE best.move,
             alpha |-> best.alpha, beta |-> best.beta, broke |-> FALSE]

\* One turn of a loop of minimax: maxEval (minEval) with bestMove, alpha and
\* beta, and whether the turn ends in the break, after the move m was
\* searched to evalScore; the penalty is 0 in the minimizing player's loop.
scored(best, evalScore, m, penalty, maximizingPlayer) ==
    IF maximizingPlayer
    THEN LET score == evalScore - penalty
             alpha == IF score > best.alpha THEN score ELSE best.alpha
         IN [score |-> IF score > best.score THEN score ELSE best.score,
             move |-> IF score > best.score THEN m ELSE best.move,
             alpha |-> alpha, beta |-> best.beta, broke |-> best.beta <= alpha]
    ELSE LET beta == IF evalScore < best.beta THEN evalScore ELSE best.beta
         IN [score |-> IF evalScore < best.score THEN evalScore ELSE best.score,
             move |-> IF evalScore < best.score THEN m ELSE best.move,
             alpha |-> best.alpha, beta |-> beta, broke |-> beta <= best.alpha]

RECURSIVE minimaxThirdVariant(_, _, _, _, _, _, _)
RECURSIVE minimaxLoopThirdVariant(_, _, _, _, _, _, _, _, _)
minimaxThirdVariant(b, ep, last, depth, maximizingPlayer, alpha, beta) ==
    LET moves == movesInOrder(getAllLegalMoves(b, ep,
                     IF maximizingPlayer THEN Black ELSE White)) IN
    IF depth = 0 \/ moves = << >>
    THEN [score |-> evaluateBoardForBoard(b), move |-> NoMove]
    ELSE LET best == minimaxLoopThirdVariant(b, ep, last, depth, moves, 1, Len(moves),
                         [score |-> IF maximizingPlayer THEN -10000 ELSE 10000,
                          move |-> NoMove, alpha |-> alpha, beta |-> beta],
                         maximizingPlayer)
         IN [score |-> best.score, move |-> best.move]

\* The turns first..last of for (let m of moves), up to the break: one
\* turn, or the turns of the first half and, unless they end in the break,
\* those of the second half.
minimaxLoopThirdVariant(b, ep, last, depth, moves, first, upTo, best, maximizingPlayer) ==
    IF first = upTo
    THEN LET m == moves[first]
             penalty == IF /\ maximizingPlayer
                           /\ last # NoMove
                           /\ m.fromRow = last.toRow /\ m.fromCol = last.toCol
                           /\ m.toRow = last.fromRow /\ m.toCol = last.fromCol
                        THEN 20 ELSE 0
         IN scored(best,
                   minimaxThirdVariant(simulated(b, m), ep, last, depth - 1,
                                       ~maximizingPlayer, best.alpha, best.beta).score,
                   m, penalty, maximizingPlayer)
    ELSE
    LET half == minimaxLoopThirdVariant(b, ep, last, depth, moves, first,
                                        (first + upTo) \div 2, best, maximizingPlayer)
    IN IF half.broke THEN half
       ELSE minimaxLoopThirdVariant(b, ep, last, depth, moves,
                                    (first + upTo) \div 2 + 1, upTo, half,
                                    maximizingPlayer)

\* aiMove with its fiber: result is what the root call returns on the board
\* as it is when the fiber starts; with no move the fiber returns before
\* aiThinking = false.
aiMoveThirdVariant(st) ==
    IF st.aiThinking THEN st
    ELSE
    LET result == minimaxThirdVariant(st.board, st.enPassantTarget, st.lastAIMove,
                                      st.aiSearchDepth, TRUE, -10000, 10000)
    IN IF result.move # NoMove
       THEN LET m == result.move
                played == [movePiece(st, m.fromRow, m.fromCol, m.toRow, m.toCol)
                               EXCEPT !.currentTurn = White, !.lastAIMove = m]
            IN [updateGameStatus(played) EXCEPT !.aiThinking = FALSE]
       ELSE LET over == [st EXCEPT !.gameOver = TRUE, !.gameState = "GameOver"]
            IN [createGameOverMenu(over,
                    IF isKingInCheck(Black, over.board) THEN "win" ELSE "tie")
                    EXCEPT !.aiThinking = TRUE]

\* The AI is to move, with the depth 2 chosen on the main menu, on a board
\* of DeepBoards with Black's pawn or knight on d5, or, with the depth 2 or
\* 3, on the board cornered, where d8 is the only square of Black's King on
\* e8: White's rooks hold the seventh rank and the f-file.
\* lastAIMove holds null, or a move of a Black piece other than a pawn onto
\* the square it stands on, from a square it can go back to.
ThirdVariantInit ==
    LET LastMoves(b) ==
            {NoMove} \cup
            {Move(m.toRow, m.toCol, m.fromRow, m.fromCol) :
                m \in {n \in getAllLegalMoves(b, NoSquare, Black) :
                          /\ b[n.toRow][n.toCol] = NoPiece
                          /\ b[n.fromRow][n.fromCol].type # "Pawn"}}
        cornered == KingsAnd({<<1, 0, Moved("Rook", White)>>,
                              <<5, 5, Moved("Rook", White)>>})
        toMove(b, last, depth) ==
            [StartState EXCEPT !.board = b, !.gameType = "AI",
                               !.gameState = "Playing", !.menuSelection = 1,
                               !.currentTurn = Black, !.aiSearchDepth = depth,
                               !.lastAIMove = last]
    IN InitFrom(UNION {{toMove(b, last, 2) : last \in LastMoves(b)} :
                          b \in {d \in DeepBoards : d[3][3] # NoPiece}}
                \cup {toMove(cornered, last, depth) :
                         last \in LastMoves(cornered), depth \in {2, 3}})

\* game.onUpdate and the fiber aiMove starts
ThirdVariantAIMove ==
    /\ aiMoveStarts(St)
    /\ Becomes(aiMoveThirdVariant(St))

ThirdVariantSpec == ThirdVariantInit /\ [][ThirdVariantAIMove]_vars

-----------------------------------------------------------------------------
(* The life of a search.  The sixth specification runs the handlers and the *)
(* fiber of the second variant as the first does, from games against the    *)
(* AI; the presses are bounded by MaxSteps, the steps of a started fiber    *)
(* are not, and the scheduler resumes a paused fiber: a step of the fiber   *)
(* that stays possible is taken.                                            *)

\* Games against the AI; in the last, after 1.e4 e5 2.Qh5 the fiber has
\* started its search for Black's second move, and while it searches
\* 2...Ke7 and 3.Qxe5 mate are entered with the buttons.
LifecycleInit ==
    LET queenOut == GameAgainstAI(<< <<6, 4, 4, 4>>, <<1, 4, 3, 4>>, <<7, 3, 3, 7>> >>)
        matedWhileAIThinks ==
            MovePresses(MovePresses(aiMove(queenOut), <<0, 4, 1, 4>>), <<3, 7, 3, 4>>)
    IN InitFrom({GameAgainstAI(<< <<6, 4, 4, 4>> >>), FirstReply, SearchStarted,
                 MateWhileAIThinks, matedWhileAIThinks})

\* the loop of the fiber, from its start to its end
FiberSearch ==
    /\ aiPc = "search"
    /\ \E moves \in {getAllLegalMoves(board, enPassantTarget, Black)} :
       \E move \in (IF moves = {} THEN {NoMove} ELSE moves) :
           \E n \in {aiMoveIterate(St, move)} : Becomes(n)

\* the fiber after its loop
FiberFinish ==
    /\ aiPc = "searched"
    /\ \E n \in {aiMoveFinish(St)} : Becomes(n)

LifecycleNext ==
    \/ \E r \in Rows, c \in Cols : PressA(r, c)
    \/ PressB
    \/ PressMenu
    \/ \E delta \in {-1, 1} : PressArrow(delta)
    \/ AIStart
    \/ FiberSearch
    \/ FiberFinish

\* The fairness is stated on the fiber's position: the step that takes
\* aiPc from "search" is FiberSearch and the one that takes it from
\* "searched" to "idle" is FiberFinish, each possible whenever the fiber is
\* at that position.
LifecycleSpec ==
    LifecycleInit /\ [][LifecycleNext]_vars
        /\ WF_aiPc(aiPc = "search" /\ aiPc' = "searched")
        /\ WF_aiPc(aiPc = "searched" /\ aiPc' = "idle")

-----------------------------------------------------------------------------
(* Properties.  A property about the moves isLegalMove accepts is stated    *)
(* for the piece controller.A holds selected and every cell the cursor may  *)
(* be on at the next press of A.                                            *)

\* a game is played and the selected cell holds a piece
Selected ==
    /\ gameState = "Playing"
    /\ selectedPiece # NoSquare
    /\ board[selectedPiece.row][selectedPiece.col] # NoPiece

SelectedPieceValue == board[selectedPiece.row][selectedPiece.col]

\* isLegalMove accepts the move of the selected piece to (toRow, toCol)
Accepts(toRow, toCol) ==
    isLegalMove(board, enPassantTarget, selectedPiece.row, selectedPiece.col,
                toRow, toCol)

\* the last record of moveHistory
LastMove == moveHistory[Len(moveHistory)]

\* this step pushed a record: a move was applied
MoveApplied == Len(moveHistory') = Len(moveHistory) + 1

\* what the round trip is to restore
Placement(st) ==
    <<st.board, st.currentTurn, st.enPassantTarget, st.whiteScore, st.blackScore>>

\* C1: for every move isLegalMove accepts, movePiece and the caller's turn
\* flip followed by undoLastMove, when the game is not over, restore the
\* board (type, color, hasMoved on every square), currentTurn,
\* enPassantTarget, whiteScore and blackScore.
RoundTrip ==
    (Selected /\ ~gameOver) =>
        \A toRow \in Rows, toCol \in Cols :
            LET after == updateGameStatus(FlipTurn(
                             movePiece(St, selectedPiece.row, selectedPiece.col,
                                       toRow, toCol)))
            IN (Accepts(toRow, toCol) /\ ~after.gameOver)
                   => Placement(undoLastMove(after)) = Placement(St)

\* C2: isLegalMove rejects every move after which, en-passant removal and
\* castling rook relocation included, the mover's own king is attacked: on
\* the board movePiece leaves after an accepted move, the side that moved is
\* not in check.
PinEnforcement ==
    Selected =>
        \A toRow \in Rows, toCol \in Cols :
            Accepts(toRow, toCol) =>
                ~isKingInCheck(SelectedPieceValue.color,
                               ApplyMove(St, selectedPiece.row, selectedPiece.col,
                                         toRow, toCol).board)

\* C2's case: the selected piece is no king, its king is not in check, and
\* a move its movement pattern allows is rejected because it would expose
\* the king.
PinnedPieceSelected ==
    /\ Selected
    /\ ~gameOver
    /\ SelectedPieceValue.color = currentTurn
    /\ SelectedPieceValue.type # "King"
    /\ ~isKingInCheck(SelectedPieceValue.color, board)
    /\ \E toRow \in Rows, toCol \in Cols :
           /\ isLegalMoveBasic(board, enPassantTarget, selectedPiece.row,
                               selectedPiece.col, toRow, toCol, SelectedPieceValue)
           /\ \/ board[toRow][toCol] = NoPiece
              \/ board[toRow][toCol].color # SelectedPieceValue.color
           /\ ~Accepts(toRow, toCol)

\* C3: a pawn's diagonal-forward move onto an empty square is accepted only
\* if the last applied move was the opponent's two-square pawn advance and
\* the destination is the square that pawn skipped.
EnPassantWindow ==
    (Selected /\ ~gameOver /\ SelectedPieceValue.type = "Pawn") =>
        \A toRow \in Rows, toCol \in Cols :
            ( /\ Abs(toCol - selectedPiece.col) = 1
              /\ toRow = selectedPiece.row + Direction(SelectedPieceValue.color)
              /\ board[toRow][toCol] = NoPiece
              /\ Accepts(toRow, toCol) )
            => /\ Len(moveHistory) > 0
               /\ LastMove.oldType = "Pawn"
               /\ Abs(LastMove.toRow - LastMove.fromRow) = 2
               /\ board[LastMove.toRow][LastMove.toCol].color
                      = OtherColor(SelectedPieceValue.color)
               /\ toRow = (LastMove.fromRow + LastMove.toRow) \div 2
               /\ toCol = LastMove.fromCol

\* C4: a king's two-column move along its row is rejected whenever the king
\* is in check, or the square it crosses or its destination is attacked, or
\* a square strictly between the king and the rook on that side is occupied,
\* or that rook is absent or has moved.
CastlingPreconditions ==
    (Selected /\ ~gameOver /\ SelectedPieceValue.type = "King") =>
        \A toCol \in Cols :
            LET row == selectedPiece.row
                col == selectedPiece.col
                color == SelectedPieceValue.color
                step == IF toCol > col THEN 1 ELSE -1
                corner == IF toCol > col THEN BOARD_SIZE - 1 ELSE 0
                rook == board[row][corner]
            IN ( /\ Abs(toCol - col) = 2
                 /\ \/ isKingInCheck(color, board)
                    \/ isSquareAttacked(row, col + step, OtherColor(color), board)
                    \/ isSquareAttacked(row, toCol, OtherColor(color), board)
                    \/ \E c \in Between(col, corner) : board[row][c] # NoPiece
                    \/ rook = NoPiece
                    \/ rook.type # "Rook"
                    \/ rook.color # color
                    \/ rook.hasMoved )
               => ~Accepts(row, toCol)

\* C5: after movePiece has applied a castling move, the king stands two
\* columns from its origin, the rook from the corner stands on the square the
\* king crossed, the corner is empty, and the king's and the rook's hasMoved
\* are true.
CastlingEffect ==
    ( /\ gameState = "Playing"
      /\ Len(moveHistory) > 0
      /\ LastMove.castling.present )
    => LET king == board[LastMove.toRow][LastMove.toCol]
           rook == board[LastMove.fromRow][LastMove.castling.rookTo]
       IN /\ king.type = "King"
          /\ king.hasMoved
          /\ Abs(LastMove.toCol - LastMove.fromCol) = 2
          /\ LastMove.castling.rookTo = (LastMove.fromCol + LastMove.toCol) \div 2
          /\ rook.type = "Rook"
          /\ rook.color = king.color
          /\ rook.hasMoved
          /\ board[LastMove.fromRow][LastMove.castling.rookFrom] = NoPiece

\* C6: on the board no Pawn stands on row 0 as White or on row 7 as Black;
\* a pawn movePiece has moved onto its farthest rank is a Queen.
PromotionInvariant ==
    \A col \in Cols :
        /\ board[0][col] # NoPiece
               => ~(board[0][col].type = "Pawn" /\ board[0][col].color = White)
        /\ board[BOARD_SIZE - 1][col] # NoPiece
               => ~(board[BOARD_SIZE - 1][col].type = "Pawn"
                    /\ board[BOARD_SIZE - 1][col].color = Black)

\* C6's case: the last applied move brought a white pawn to row 0, where a
\* white Queen stands.
PawnPromoted ==
    /\ gameState = "Playing"
    /\ Len(moveHistory) > 0
    /\ LastMove.oldType = "Pawn"
    /\ LastMove.toRow = 0
    /\ board[LastMove.toRow][LastMove.toCol]
           = [type |-> "Queen", color |-> White, hasMoved |-> TRUE]

StalemateDetection ==
    (gameOver /\ gameState = "GameOver") =>
        /\ ~hasAnyLegalMove(board, enPassantTarget, currentTurn)
        /\ gameOverMenu = "tie" <=> ~isKingInCheck(currentTurn, board)

\* C9: once the game is over (gameOver true, the game-over menu up), no A or
\* B press and no step of the AI changes the board until a new game starts.
TerminalStates ==
    [][ (gameOver /\ gameState = "GameOver") => board' = board ]_vars

\* C10: after every applied move enPassantTarget is the square the moved pawn
\* skipped if the move was a pawn's two-square advance, and null after any
\* other move; from the starting position White's (6,4)->(4,4) is legal,
\* sets the target to (5,4) and passes the turn to Black.
EnPassantBookkeeping ==
    [][ /\ MoveApplied =>
            LET m == moveHistory'[Len(moveHistory')] IN
            IF m.oldType = "Pawn" /\ Abs(m.toRow - m.fromRow) = 2
            THEN enPassantTarget' = Square((m.fromRow + m.toRow) \div 2, m.fromCol)
            ELSE enPassantTarget' = NoSquare
        /\ ( /\ gameState = "Playing"
             /\ ~gameOver
             /\ board = InitialBoard
             /\ currentTurn = White
             /\ selectedPiece = Square(6, 4) )
           => /\ Accepts(4, 4)
              /\ (MoveApplied /\ moveHistory'[Len(moveHistory')].toRow = 4
                              /\ moveHistory'[Len(moveHistory')].toCol = 4)
                 => /\ enPassantTarget' = Square(5, 4)
                    /\ currentTurn' = Black ]_vars

\* C10's case: from the starting position the pawn has gone (6,4)->(4,4), the
\* target is (5,4) and it is Black's turn.
KingPawnOpening ==
    /\ gameState = "Playing"
    /\ Len(moveHistory) = 1
    /\ LastMove.fromRow = 6 /\ LastMove.fromCol = 4
    /\ LastMove.toRow = 4 /\ LastMove.toCol = 4
    /\ board = [[InitialBoard EXCEPT ![6][4] = NoPiece]
                    EXCEPT ![4][4] = [type |-> "Pawn", color |-> White,
                                      hasMoved |-> TRUE]]
    /\ enPassantTarget = Square(5, 4)
    /\ currentTurn = Black

\* C11: at most one search is in flight: while the fiber of a search runs
\* aiThinking is true, and a call of aiMove with aiThinking true changes no
\* state (it starts no second search).
SingleSearch ==
    /\ aiPc # "idle" => aiThinking
    /\ aiThinking => aiMove(St) = St

\* C11's case: a search is in flight and has a move in hand, in a game
\* against the AI with Black to move.
SearchInFlight ==
    /\ gameState = "Playing"
    /\ gameType = "AI"
    /\ currentTurn = Black
    /\ aiThinking
    /\ aiPc = "searched"
    /\ bestSoFar # NoMove

\* the end of the fiber: the statements of aiMove after the loop
SearchEnds == aiPc = "searched" /\ aiPc' = "idle"

\* C12: a search for Black with no legal move returns none, and then no move
\* is applied and the game is marked over, 'win' if Black's king is in check
\* and 'tie' otherwise; a search with a legal move returns one of Black's
\* legal moves in the searched position, and then exactly that one move is
\* applied.
SearchOutcome ==
    [][ /\ (bestSoFar' # bestSoFar /\ bestSoFar' # NoMove) =>
            /\ board[bestSoFar'.fromRow][bestSoFar'.fromCol] # NoPiece
            /\ board[bestSoFar'.fromRow][bestSoFar'.fromCol].color = Black
            /\ isLegalMove(board, enPassantTarget,
                           bestSoFar'.fromRow, bestSoFar'.fromCol,
                           bestSoFar'.toRow, bestSoFar'.toCol)
        /\ SearchEnds =>
            IF bestSoFar = NoMove
            THEN /\ board' = board
                 /\ moveHistory' = moveHistory
                 /\ gameOver'
                 /\ gameState' = "GameOver"
                 /\ gameOverMenu' = IF isKingInCheck(Black, board)
                                    THEN "win" ELSE "tie"
            ELSE /\ Len(moveHistory') = Len(moveHistory) + 1
                 /\ LET m == moveHistory'[Len(moveHistory')] IN
                    /\ Move(m.fromRow, m.fromCol, m.toRow, m.toCol) = bestSoFar
                    /\ board'[m.toRow][m.toCol] # NoPiece
                    /\ board'[m.toRow][m.toCol].color = Black ]_vars

\* C13: while a search is in flight (aiThinking true, the fiber suspended
\* between its start and its end), a step that is not the fiber's end (so a
\* button handler's) changes neither the board, nor the move history, nor
\* the en-passant target, nor the turn.
SearchUndisturbed ==
    [][ (aiThinking /\ aiPc \in {"search", "searched"} /\ aiPc' # "idle")
        => /\ board' = board
           /\ moveHistory' = moveHistory
           /\ enPassantTarget' = enPassantTarget
           /\ currentTurn' = currentTurn ]_vars

\* C14: a step of a search before its end (the start of the fiber, a turn
\* of its loop) leaves the piece placement with the hasMoved flags, the
\* en-passant target, the move history, the scores and the turn unchanged.
SearchFrame ==
    [][ ( /\ aiPc' \in {"search", "searched"}
          /\ aiPc' # aiPc \/ bestSoFar' # bestSoFar )
        => /\ board' = board
           /\ enPassantTarget' = enPassantTarget
           /\ moveHistory' = moveHistory
           /\ whiteScore' = whiteScore
           /\ blackScore' = blackScore
           /\ currentTurn' = currentTurn ]_vars

\* C14's case: a search has returned a move while the game goes on, and the
\* move is still to be made on the board.
SearchReturned ==
    /\ gameState = "Playing"
    /\ ~gameOver
    /\ aiPc = "searched"
    /\ bestSoFar # NoMove
    /\ board[bestSoFar.fromRow][bestSoFar.fromCol] # NoPiece
    /\ isLegalMove(board, enPassantTarget, bestSoFar.fromRow,
                   bestSoFar.fromCol, bestSoFar.toRow, bestSoFar.toCol)

\* The sum of pieceValue over the pieces of a color that the records of a
\* history hold as captured.
RECURSIVE CapturedValue(_, _)
CapturedValue(history, color) ==
    IF Len(history) = 0 THEN 0
    ELSE LET cap == history[Len(history)].captured
             rest == CapturedValue(SubSeq(history, 1, Len(history) - 1), color)
         IN IF cap.present /\ cap.color = color
            THEN rest + pieceValue([type |-> cap.type, color |-> cap.color,
                                    hasMoved |-> cap.hasMoved])
            ELSE rest

\* C18: in every reachable state whiteScore is the sum of pieceValue over
\* the Black pieces that moveHistory records as captured, blackScore the
\* sum over the White ones, and neither score is negative.
ScoreInvariant ==
    /\ whiteScore = CapturedValue(moveHistory, Black)
    /\ blackScore = CapturedValue(moveHistory, White)
    /\ whiteScore >= 0
    /\ blackScore >= 0

\* The number of Kings of a color on a board.
Kings(b, color) ==
    Cardinality({sq \in Rows \X Cols :
                    /\ b[sq[1]][sq[2]] # NoPiece
                    /\ b[sq[1]][sq[2]].type = "King"
                    /\ b[sq[1]][sq[2]].color = color})

\* C19: in every state reached during play by button presses and AI moves
\* the board holds exactly one White King and exactly one Black King.
KingInvariant ==
    gameState = "Playing" => Kings(board, White) = 1 /\ Kings(board, Black) = 1

\* The state an undo leaves next to the state it met: the same board, turn,
\* en-passant target, scores and gameOver.
UndoLeft(before, after) ==
    /\ after.board = before.board
    /\ after.currentTurn = before.currentTurn
    /\ after.enPassantTarget = before.enPassantTarget
    /\ after.whiteScore = before.whiteScore
    /\ after.blackScore = before.blackScore
    /\ after.gameOver = before.gameOver

\* C20: undoLastMove on an empty moveHistory leaves the board, the turn,
\* the en-passant target, the scores and gameOver unchanged; in an AI game
\* with one record a B press leaves what its first undo leaves.
UndoOnEmptyHistory ==
    /\ Len(moveHistory) = 0 => UndoLeft(St, undoLastMove(St))
    /\ (gameState = "Playing" /\ gameType = "AI" /\ Len(moveHistory) = 1)
       => /\ UndoLeft(undoLastMove(St), undoLastMove(undoLastMove(St)))
          /\ UndoLeft(undoLastMove(St), controllerB(St))

\* C20's case: B was pressed in an AI game with one record and White to
\* move; its first undo passed the turn to Black, its second undo met the
\* empty history and left the turn with Black.
UndoneTwice ==
    /\ gameState = "Playing"
    /\ gameType = "AI"
    /\ Len(moveHistory) = 0
    /\ board = InitialBoard
    /\ currentTurn = Black

\* Every piece's color swapped and the rows mirrored (row r to row 7 - r).
MirrorBoard(b) ==
    [r \in Rows |-> [c \in Cols |->
        LET piece == b[BOARD_SIZE - 1 - r][c] IN
        IF piece = NoPiece THEN NoPiece
        ELSE [piece EXCEPT !.color = OtherColor(@)]]]

\* C15 as stated: the evaluation of the mirrored board is minus the
\* evaluation of the board.
Antisymmetric ==
    evaluation # NoNumber
        => staticEvaluation(MirrorBoard(board)) = Negated(evaluation)

\* C15, amended: the evaluation of the mirrored board is minus the
\* evaluation of the board up to the rounding of the sums: the two add up
\* to less than 2^-40 in magnitude.
AntisymmetricRounded ==
    evaluation # NoNumber
        => LessMag(Plus(staticEvaluation(MirrorBoard(board)), evaluation).mag,
                   <<0, 1, 0, 0>>)

\* C15's case: a board was evaluated on which a King is in check, so that
\* the evaluation counts material, bonuses and a king-in-check term.
EvaluatedInCheck ==
    /\ evaluation # NoNumber
    /\ evaluation # Number(0)
    /\ isKingInCheck(White, board) \/ isKingInCheck(Black, board)
    /\ Kings(board, White) = 1
    /\ Kings(board, Black) = 1

\* Black's legal moves onto a piece
Captures ==
    {m \in getAllLegalMoves(board, enPassantTarget, Black) :
        board[m.toRow][m.toCol] # NoPiece}

\* the score of the depth 1 search for Black's move m
ScoreOf(m) ==
    quiesce(simulated(board, m), enPassantTarget,
            Number(-100000), Number(100000), FALSE)

\* C16 as stated: after a search of depth 1 on a board where Black has
\* exactly one capturing move, the move to apply is that one.
SingleCaptureChosen ==
    (aiPc = "searched" /\ Cardinality(Captures) = 1) => bestSoFar \in Captures

\* C16, amended: after a search of depth 1 on a board where Black has
\* exactly one capturing move, the move to apply is that one if and only if
\* no other legal move of Black has a greater score (the evaluation after
\* the captures quiesce finds for White).
SingleCaptureChosenIfBest ==
    (aiPc = "searched" /\ Cardinality(Captures) = 1)
        => LET capture == CHOOSE m \in Captures : TRUE IN
           bestSoFar = capture
               <=> \A m \in getAllLegalMoves(board, enPassantTarget, Black) :
                       ~Less(ScoreOf(capture), ScoreOf(m))

\* C16's case: White's King is not in check, Black has exactly one
\* capturing move and other moves, and the search has returned the capture.
SingleCaptureFound ==
    /\ aiPc = "searched"
    /\ ~isKingInCheck(White, board)
    /\ Cardinality(Captures) = 1
    /\ Cardinality(getAllLegalMoves(board, enPassantTarget, Black)) > 1
    /\ bestSoFar \in Captures

\* captures first, in descending order of the captured piece's value
CapturesFirst(b, moves) ==
    \A i, j \in 1..Len(moves) :
        i < j => capturedValue(b, moves[i]) >= capturedValue(b, moves[j])

\* C17: for either side to move on the board, the move list of minimax and
\* the move list of quiesce hold every capturing move before every other
\* move, the captures in descending order of the captured piece's value.
MoveOrdering ==
    \A maximizingPlayer \in BOOLEAN :
        /\ CapturesFirst(board, minimaxMoves(board, enPassantTarget, maximizingPlayer))
        /\ CapturesFirst(board, quiesceMoves(board, enPassantTarget, maximizingPlayer))

\* the pieces of a color on the board
PiecesOf(color, b) == {sq \in Rows \X Cols : b[sq[1]][sq[2]].color = color}

\* C21: on a board without a King of a color, isKingInCheck is true for that
\* color and isLegalMove accepts no move of any piece of that color.
MissingKingIsCheck ==
    \A color \in {White, Black} :
        KingSquares(color, board) = {} =>
            /\ isKingInCheck(color, board)
            /\ \A from \in PiecesOf(color, board), to \in Rows \X Cols :
                   ~isLegalMove(board, enPassantTarget, from[1], from[2], to[1], to[2])

\* C21's case: a King has been taken off the board and its side still has
\* pieces, one of them with a move its movement pattern allows.
KingTaken ==
    \E color \in {White, Black} :
        /\ KingSquares(color, board) = {}
        /\ \E from \in PiecesOf(color, board), to \in Rows \X Cols :
               isLegalMoveBasic(board, enPassantTarget, from[1], from[2], to[1], to[2],
                                board[from[1]][from[2]])

\* -1, 0 or 1 as n is negative, zero or positive
Sgn(n) == IF n < 0 THEN -1 ELSE IF n > 0 THEN 1 ELSE 0

\* The piece on from reaches sq by its basic movement pattern: a rook along
\* a rank or file, a bishop along a diagonal, a queen along either, each with
\* every square strictly between empty; a knight by an L-offset; a king by
\* `kingSteps' steps of one square; a pawn by one step diagonally forward.
Reaches(b, from, sq, kingSteps) ==
    LET p == b[from[1]][from[2]]
        dr == sq[1] - from[1]
        dc == sq[2] - from[2]
        dist == IF Abs(dr) > Abs(dc) THEN Abs(dr) ELSE Abs(dc)
        clear == \A k \in 1..(dist - 1) :
                     b[from[1] + k * Sgn(dr)][from[2] + k * Sgn(dc)] = NoPiece
        straight == (dr = 0) # (dc = 0)
        diagonal == Abs(dr) = Abs(dc) /\ dr # 0
    IN CASE p.type = "Rook"   -> straight /\ clear
         [] p.type = "Bishop" -> diagonal /\ clear
         [] p.type = "Queen"  -> (straight \/ diagonal) /\ clear
         [] p.type = "Knight" -> {Abs(dr), Abs(dc)} = {1, 2}
         [] p.type = "King"   -> dist \in kingSteps
         [] p.type = "Pawn"   -> dr = Direction(p.color) /\ Abs(dc) = 1
         [] OTHER -> FALSE

\* isSquareAttacked agrees, on the squares sqs, with "some piece of the color
\* reaches the square", a king reaching by `kingSteps' steps
AttackOracle(sqs(_, _), kingSteps) ==
    \A color \in {White, Black} : \A sq \in sqs(color, board) :
        isSquareAttacked(sq[1], sq[2], color, board)
            <=> \E from \in PiecesOf(color, board) : Reaches(board, from, sq, kingSteps)

\* The squares isSquareAttacked answers for: on a square that holds a rook,
\* bishop or queen of the color the line loops are asked for a line of no
\* length and walk off the board.
SquaresAnswered(color, b) ==
    {sq \in Rows \X Cols :
        ~(b[sq[1]][sq[2]].color = color
          /\ b[sq[1]][sq[2]].type \in {"Rook", "Bishop", "Queen"})}

WithHasMoved(b, sq, moved) == [b EXCEPT ![sq[1]][sq[2]].hasMoved = moved]

\* the two-column moves of the king on sq that stay on the board
TwoColumnMoves(sq) == {to \in {sq[1]} \X Cols : Abs(to[2] - sq[2]) = 2}

\* isLegalMove's answer for the move of the king on sq to the square to,
\* the king's hasMoved flag being kingMoved
CastlingAnswer(b, ep, sq, to, kingMoved) ==
    isLegalMove(WithHasMoved(b, sq, kingMoved), ep, sq[1], sq[2], to[1], to[2])

\* the corner the king moving from sq to the square to castles with
Corner(sq, to) == <<sq[1], IF to[2] > sq[2] THEN BOARD_SIZE - 1 ELSE 0>>

\* C23: isLegalMove gives the same answer for a king's two-column move
\* whether the king's hasMoved flag is set or not, and rejects the move when
\* the piece in the corner has its hasMoved flag set.
CastlingIgnoresKingHasMoved ==
    \A color \in {White, Black} : \A sq \in KingSquares(color, board) :
        \A to \in TwoColumnMoves(sq) :
            /\ CastlingAnswer(board, enPassantTarget, sq, to, TRUE)
                   = CastlingAnswer(board, enPassantTarget, sq, to, FALSE)
            /\ ~CastlingAnswer(WithHasMoved(board, Corner(sq, to), TRUE),
                               enPassantTarget, sq, to, board[sq[1]][sq[2]].hasMoved)

\* C23's case: castling is accepted for a king whose hasMoved flag is set,
\* as it is with the flag cleared.
MovedKingMayCastle ==
    \E color \in {White, Black} : \E sq \in KingSquares(color, board) :
        \E to \in TwoColumnMoves(sq) :
            /\ board[sq[1]][sq[2]].hasMoved
            /\ isLegalMove(board, enPassantTarget, sq[1], sq[2], to[1], to[2])
            /\ CastlingAnswer(board, enPassantTarget, sq, to, FALSE)

\* C24: a press of B while the game-over menu is shown starts a new game:
\* afterwards gameState is Playing, gameOver is false, the board is the
\* initial position, White is to move, the history is empty and the scores
\* are zero.
RestartFromGameOver ==
    [][(gameState = "GameOver" /\ PressB) =>
          /\ gameState' = "Playing"
          /\ ~gameOver'
          /\ board' = InitialBoard
          /\ currentTurn' = White
          /\ moveHistory' = << >>
          /\ whiteScore' = 0 /\ blackScore' = 0]_vars

\* C25: in the first variant one press of B while a two-player game is
\* played undoes exactly the last move: the history is one record shorter
\* and the turn is with the player whose piece made that move.
UndoesLastMoveOnly ==
    (gameState = "Playing" /\ gameType = "TwoPlayer" /\ Len(moveHistory) >= 1) =>
        LET move == moveHistory[Len(moveHistory)]
            after == controllerBFirstVariant(St)
        IN /\ Len(after.moveHistory) = Len(moveHistory) - 1
           /\ after.currentTurn = board[move.toRow][move.toCol].color

\* the value the first variant gives the piece the move m lands on
TargetValue(m) == pieceValueFirstVariant(board[m.toRow][m.toCol])

\* Black's moves that isLegalMove of the first variant accepts
BlackMoves == legalMovesFirstVariant(board, enPassantTarget, Black)

\* those of them that land on an occupied square
BlackCaptures == {m \in BlackMoves : board[m.toRow][m.toCol] # NoPiece}

\* the move of the last record of a move history
MoveOfLast(history) ==
    LET last == history[Len(history)]
    IN Move(last.fromRow, last.fromCol, last.toRow, last.toCol)

\* C26: in the first variant the AI, when Black has a legal move landing on
\* an occupied square, applies a legal capture whose captured piece has the
\* highest value among Black's legal captures on the board it scanned, and
\* when there is none and Black has a legal move it applies a legal move.
AIAppliesBestCapture ==
    [][(FirstVariantAIMove /\ BlackMoves # {}) =>
          /\ Len(moveHistory') = Len(moveHistory) + 1
          /\ MoveOfLast(moveHistory') \in BlackMoves
          /\ BlackCaptures # {} =>
                /\ MoveOfLast(moveHistory') \in BlackCaptures
                /\ \A o \in BlackCaptures :
                       TargetValue(o) <= TargetValue(MoveOfLast(moveHistory'))]_vars

\* C26's case: the AI has just taken a piece while the position it scanned
\* (the one undoLastMove leads back to) also held a capture of lower value.
BestCaptureApplied ==
    /\ gameState = "Playing"
    /\ gameType = "AI"
    /\ currentTurn = White
    /\ Len(moveHistory) > 0
    /\ bestSoFar = MoveOfLast(moveHistory)
    /\ moveHistory[Len(moveHistory)].captured.present
    /\ LET before == undoLastMove(St)
           taken == pieceValueFirstVariant(moveHistory[Len(moveHistory)].captured)
       IN \E o \in legalMovesFirstVariant(before.board, before.enPassantTarget, Black) :
              /\ before.board[o.toRow][o.toCol] # NoPiece
              /\ pieceValueFirstVariant(before.board[o.toRow][o.toCol]) < taken

\* The search with only the cutoffs of the set kept in force: "return" is
\* quiesce's return on alpha >= beta after the stand-pat score, "break" the
\* breaks of the loops of quiesce and minimax.  With both it is the search
\* above.
RECURSIVE quiesceKeeping(_, _, _, _, _, _)
RECURSIVE quiesceLoopKeeping(_, _, _, _, _, _)
quiesceKeeping(kept, b, ep, alpha, beta, maximizingPlayer) ==
    LET bounds == narrowed(alpha, beta, staticEvaluation(b), maximizingPlayer) IN
    IF bounds.closed /\ "return" \in kept
    THEN IF maximizingPlayer THEN bounds.alpha ELSE bounds.beta
    ELSE quiesceLoopKeeping(kept, b, ep, quiesceMoves(b, ep, maximizingPlayer),
                            bounds, maximizingPlayer)

\* the loop of quiesce from the move Head(moves) on, the first turn without
\* a test before it
quiesceLoopKeeping(kept, b, ep, moves, bounds, maximizingPlayer) ==
    IF moves = << >>
    THEN IF maximizingPlayer THEN bounds.alpha ELSE bounds.beta
    ELSE LET next == narrowed(bounds.alpha, bounds.beta,
                              quiesceKeeping(kept, simulated(b, Head(moves)), ep,
                                             bounds.alpha, bounds.beta,
                                             ~maximizingPlayer),
                              maximizingPlayer)
         IN IF next.closed /\ "break" \in kept
            THEN IF maximizingPlayer THEN next.alpha ELSE next.beta
            ELSE quiesceLoopKeeping(kept, b, ep, Tail(moves), next, maximizingPlayer)

RECURSIVE minimaxKeeping(_, _, _, _, _, _, _)
RECURSIVE minimaxLoopKeeping(_, _, _, _, _, _, _, _, _)
minimaxKeeping(kept, b, ep, depth, alpha, beta, maximizingPlayer) ==
    LET moves == minimaxMoves(b, ep, maximizingPlayer) IN
    IF depth = 0 \/ moves = << >>
    THEN [score |-> quiesceKeeping(kept, b, ep, alpha, beta, maximizingPlayer),
          move |-> NoMove]
    ELSE LET best == minimaxLoopKeeping(kept, b, ep, depth, moves, 1, Len(moves),
                         [score |-> Number(IF maximizingPlayer THEN -100000 ELSE 100000),
                          move |-> NoMove, alpha |-> alpha, beta |-> beta],
                         maximizingPlayer)
         IN [score |-> best.score, move |-> best.move]

minimaxLoopKeeping(kept, b, ep, depth, moves, first, last, best, maximizingPlayer) ==
    IF first = last
    THEN evaluated(best,
                   minimaxKeeping(kept, simulated(b, moves[first]), ep, depth - 1,
                                  best.alpha, best.beta, ~maximizingPlayer).score,
                   moves[first], maximizingPlayer)
    ELSE
    LET half == minimaxLoopKeeping(kept, b, ep, depth, moves, first,
                                   (first + last) \div 2, best, maximizingPlayer)
    IN IF half.broke /\ "break" \in kept THEN half
       ELSE minimaxLoopKeeping(kept, b, ep, depth, moves, (first + last) \div 2 + 1,
                               last, half, maximizingPlayer)

\* the root call for the depth d with the cutoffs of the set kept
rootSearchKeeping(kept, b, ep, d) ==
    minimaxKeeping(kept, b, ep, d, Number(-100000), Number(100000), TRUE)

\* C27: the root call of minimax with the window (-100000, 100000) returns
\* the move and the score that the same search returns with the breaks of
\* the loops of minimax and quiesce taken out, and with quiesce's return on
\* alpha >= beta taken out as well, for every depth of aiMove's loop.
PruningPreservesResult ==
    aiPc = "search" =>
        \A kept \in {{"return"}, {}} :
            rootSearchKeeping(kept, board, enPassantTarget, steps + 1)
                = rootSearch(board, enPassantTarget, steps + 1)

\* C27's case: the loop is through, the move it leaves is the move of the
\* deepest search without cutoffs, and a cutoff was made below the root: for
\* a move after the best one, searched with alpha at the best score, the
\* loop over White's replies took its break before the last reply.
CutoffBelowRoot ==
    /\ aiPc = "searched"
    /\ LET full == rootSearchKeeping({}, board, enPassantTarget, aiSearchDepth)
           moves == minimaxMoves(board, enPassantTarget, TRUE)
           replies(j) == minimaxMoves(simulated(board, moves[j]), enPassantTarget, FALSE)
       IN /\ full.move = bestSoFar
          /\ \E i, j \in 1..Len(moves) :
                /\ moves[i] = bestSoFar
                /\ i < j
                /\ Len(replies(j)) > 1
                /\ minimaxLoop(simulated(board, moves[j]), enPassantTarget,
                               aiSearchDepth - 1, replies(j), 1, Len(replies(j)) - 1,
                               [score |-> Number(100000), move |-> NoMove,
                                alpha |-> full.score, beta |-> Number(100000)],
                               FALSE).broke


\* the move that undoes the move last
Reversal(last) == Move(last.toRow, last.toCol, last.fromRow, last.fromCol)

\* C28: in the variant with the anti-repetition penalty, the AI's turn plays
\* a legal move of Black whenever Black has one - the root call of minimax
\* returns a move whatever the penalties - and when the move that reverses
\* lastAIMove is Black's only legal move, that move is played.
PenaltyRemovesNoMove ==
    [][ThirdVariantAIMove =>
         LET moves == getAllLegalMoves(board, enPassantTarget, Black)
             result == minimaxThirdVariant(board, enPassantTarget, lastAIMove,
                                           aiSearchDepth, TRUE, -10000, 10000)
         IN moves # {} =>
                /\ result.move \in moves
                /\ Len(moveHistory') = Len(moveHistory) + 1
                /\ MoveOfLast(moveHistory') = result.move
                /\ lastAIMove' = result.move
                /\ moves = {Reversal(lastAIMove)} =>
                       MoveOfLast(moveHistory') = Reversal(lastAIMove)]_vars

\* The AI is to move, the move that reverses lastAIMove is Black's only
\* legal move, and the AI's turn plays it.
OnlyMoveIsPenalised ==
    /\ aiMoveStarts(St)
    /\ lastAIMove # NoMove
    /\ getAllLegalMoves(board, enPassantTarget, Black) = {Reversal(lastAIMove)}
    /\ aiMoveThirdVariant(St).lastAIMove = Reversal(lastAIMove)
    /\ MoveOfLast(aiMoveThirdVariant(St).moveHistory) = Reversal(lastAIMove)

\* C29: every search that starts ends: whenever aiThinking is set, it is
\* cleared again later, whether the fiber finds a move or none, so that
\* game.onUpdate starts the next search.
SearchReturnsToIdle == aiThinking ~> ~aiThinking

\* C30: whatever is pressed between the steps of a search, the step that
\* ends the search with a move makes it at Black's turn, and the move is a
\* legal move of a Black piece on the board as it is at that step.
AppliedMoveIsLegal ==
    [][ (AIFinish /\ bestSoFar # NoMove)
        => /\ currentTurn = Black
           /\ board[bestSoFar.fromRow][bestSoFar.fromCol] # NoPiece
           /\ board[bestSoFar.fromRow][bestSoFar.fromCol].color = Black
           /\ isLegalMove(board, enPassantTarget, bestSoFar.fromRow,
                          bestSoFar.fromCol, bestSoFar.toRow, bestSoFar.toCol) ]_vars

\* C31: a move made with the A button moves a piece of the side to move:
\* whatever was pressed since the piece was selected, at the press that
\* makes the move the piece on the selected square has the color
\* currentTurn.
MovedPieceIsOfTurn ==
    [][ \A r \in Rows, c \in Cols :
           (PressA(r, c) /\ Len(moveHistory') = Len(moveHistory) + 1)
           => /\ selectedPiece # NoSquare
              /\ board[selectedPiece.row][selectedPiece.col] # NoPiece
              /\ board[selectedPiece.row][selectedPiece.col].color = currentTurn ]_vars

\* C32: while a game is played and no search is in flight, it is White's
\* turn exactly when the move history holds an even number of records, and
\* the records are of moves of White, Black, White, ... in turn.
TurnParity ==
    (gameState = "Playing" /\ aiPc = "idle" /\ ~aiThinking)
    => /\ currentTurn = White <=> Len(moveHistory) % 2 = 0
       /\ \A i \in 1..Len(moveHistory) :
              moveHistory[i].color = IF i % 2 = 1 THEN White ELSE Black

\* C33: whenever enPassantTarget = (r, c) is set, square (r, c) is empty, the
\* pawn that made the double step stands just beyond it in the same column (a
\* White pawn on (4, c) when r = 5, a Black pawn on (3, c) when r = 2), and it
\* is the other side's turn.
EnPassantTargetConsistent ==
    enPassantTarget # NoSquare
    => LET r == enPassantTarget.row
           c == enPassantTarget.col
           pawnRow == IF r = 5 THEN 4 ELSE 3
           pawnColor == IF r = 5 THEN White ELSE Black
       IN  /\ r \in {2, 5}
           /\ board[r][c] = NoPiece
           /\ board[pawnRow][c] # NoPiece
           /\ board[pawnRow][c].type = "Pawn"
           /\ board[pawnRow][c].color = pawnColor
           /\ currentTurn = OtherColor(pawnColor)

\* C34: while a search is in flight at Black's turn, for every legal move m of Black the board
\* the search evaluates after cloneBoard and simulateMove(m) is the board
\* movePiece(m) produces (the same pieces, types and hasMoved flags on the same
\* squares), and the en-passant target the search judges the replies with is
\* the one movePiece(m) sets.
SearchPositionsMatch ==
    (aiPc = "search" /\ currentTurn = Black /\ ~gameOver)
    => \A m \in getAllLegalMoves(board, enPassantTarget, Black) :
           LET made == movePiece(St, m.fromRow, m.fromCol, m.toRow, m.toCol) IN
           /\ simulated(board, m) = made.board
           /\ enPassantTarget = made.enPassantTarget

\* C35: pressing A on the main menu, and newGame by the menu button during
\* play, leave a fresh game: the initial placement with every hasMoved false,
\* White to move, an empty move history, both scores 0, no en-passant target,
\* gameOver false, no piece selected and no search marked in flight.
StartLeavesFreshGame ==
    [][ ( \/ gameState = "MainMenu" /\ gameState' = "Playing"
          \/ gameState = "Playing" /\ PressMenu )
        => /\ board' = InitialBoard
           /\ currentTurn' = White
           /\ moveHistory' = << >>
           /\ whiteScore' = 0
           /\ blackScore' = 0
           /\ enPassantTarget' = NoSquare
           /\ ~gameOver'
           /\ selectedPiece' = NoSquare
           /\ ~aiThinking' ]_vars

\* The deepest nesting of quiesce calls below quiesce(b, ...) when no cutoff
\* ends a loop early: 0 without a move onto a piece, else one more than the
\* deepest below a move of the list.
RECURSIVE quiesceDepth(_, _, _)
quiesceDepth(b, ep, maximizingPlayer) ==
    LET moves == quiesceMoves(b, ep, maximizingPlayer)
        deepest[n \in 0..Len(moves)] ==
            IF n = 0 THEN 0
            ELSE LET below == 1 + quiesceDepth(simulated(b, moves[n]), ep,
                                               ~maximizingPlayer)
                 IN IF below > deepest[n - 1] THEN below ELSE deepest[n - 1]
    IN deepest[Len(moves)]

\* the number of pieces on a board
PieceCount(b) == Len(occupiedCells(b))

\* C36: on every board of the search and for either side, every move of
\* quiesce's list leaves one piece fewer on the board it recurses on, the
\* nesting of quiesce calls is at most the number of pieces on the board, and
\* where the search has returned, minimax returns a score for every depth from
\* 0 to MaxPly.
SearchTerminates ==
    \A maximizingPlayer \in BOOLEAN :
        LET moves == quiesceMoves(board, enPassantTarget, maximizingPlayer) IN
        /\ \A i \in 1..Len(moves) :
               PieceCount(simulated(board, moves[i])) = PieceCount(board) - 1
        /\ quiesceDepth(board, enPassantTarget, maximizingPlayer) <= PieceCount(board)
        /\ aiPc = "searched"
           => \A d \in 0..MaxPly :
                  minimax(board, enPassantTarget, d, Number(-100000), Number(100000),
                          maximizingPlayer).score # NoNumber

\* C36's case: the search has returned on a board where a capture of Black
\* is answered by a capture of White, so quiesce has called itself twice in
\* a row.
QuiesceNested ==
    /\ aiPc = "searched"
    /\ quiesceDepth(board, enPassantTarget, TRUE) >= 2

\* C37: during play, for every legal move m of Black, the legality tests of
\* the search return with the global board they met - the test at the root
\* with canPieceAttack's re-pointing to the clone of m below it, and the test
\* on the clone with m made - and after the turns of the search that return m
\* the global board is the board the handlers play on.
BoardPointerRestored ==
    gameState = "Playing"
    => \A m \in getAllLegalMoves(board, enPassantTarget, Black) :
           /\ isLegalMoveForBoard(St, board,
                  <<SimulatedBoard(board, m.fromRow, m.fromCol, m.toRow, m.toCol)>>) = St
           /\ isLegalMoveForBoard(St, simulated(board, m), << >>) = St
           /\ aiMoveIterate(St, m).board = board

\* C37's case: the search has returned a move and is paused before it makes
\* it, and the A handler has selected a piece on the global board meanwhile.
HandlerRunsAtYield ==
    /\ gameState = "Playing"
    /\ aiPc = "searched"
    /\ bestSoFar # NoMove
    /\ selectedPiece # NoSquare
    /\ board[selectedPiece.row][selectedPiece.col] # NoPiece

=============================================================================
